---- MODULE Spec2Model ----
(***************************************************************************)
(* A model of the buffer / edit / undo-redo engine of the editor:          *)
(* src/src/buffer.rs (Buffer, Patch) and the editor operations of          *)
(* src/src/components/editor.rs that drive it.                             *)
(*                                                                         *)
(* Text is a sequence of characters (Unicode scalars), so every index of   *)
(* the model is a CharIndex.  A character is a one-element string; the     *)
(* character Wide stands for a scalar whose UTF-8 encoding is two bytes,   *)
(* WideBlank for a white space of two bytes (U+00A0).                      *)
(***************************************************************************)
EXTENDS Integers, Sequences, FiniteSets, TLC

VARIABLES
    buffer,         \* the Buffer behind the Rc<RefCell<..>>: rope, tree, history, path, language
    selection_set,  \* the caller's (editor's) current SelectionSet
    mode,           \* the editor's Mode
    clipboard,      \* the system clipboard content
    jumps,          \* the jumps of the editor's Mode::Jump, none in another mode
    screen,         \* the Screen the editor is a component of: channel, diagnostics, message in hand
    validity,       \* the editor's position in the loop of get_valid_selection, none outside it
    last,           \* the last operation and what it returned to its caller
    hist_undo,      \* history variable: per entry of undo_patch, what the entry must do
    hist_redo       \* history variable: per entry of redo_patches, what the entry must do

vars == <<buffer, selection_set, mode, clipboard, jumps, screen, validity, last, hist_undo, hist_redo>>

-----------------------------------------------------------------------------
(* Bounds of the model.                                                    *)

\* longest text (in chars) a transaction of the caller may leave
MaxLen == 1
\* most patches kept on the undo and redo stacks together
MaxHist == 2

-----------------------------------------------------------------------------
(* Text.                                                                   *)

NL == "\n"
Wide == "w2"
WideBlank == "b2"
Chars == {"a", NL}

Min(a, b) == IF a < b THEN a ELSE b
Max(a, b) == IF a > b THEN a ELSE b

\* ropey Rope::remove(start..end): the text without the chars [start, end)
RopeRemove(rope, start, end) ==
    SubSeq(rope, 1, start) \o SubSeq(rope, end + 1, Len(rope))

\* ropey Rope::insert(char_idx, text)
RopeInsert(rope, at, text) ==
    SubSeq(rope, 1, at) \o text \o SubSeq(rope, at + 1, Len(rope))

\* Length of the first line of a non-empty text, its line break included
FirstLineLen(text) ==
    IF \E i \in 1..Len(text) : text[i] = NL
    THEN CHOOSE i \in 1..Len(text) : text[i] = NL /\ \A j \in 1..(i - 1) : text[j] # NL
    ELSE Len(text)

\* The lines of a text, each with its line break; a last line without a
\* line break is a line, and the empty text has no line (diffy's LineIter).
RECURSIVE LinesOf(_)
LinesOf(text) ==
    IF text = <<>> THEN <<>>
    ELSE LET n == FirstLineLen(text)
         IN  <<SubSeq(text, 1, n)>> \o LinesOf(SubSeq(text, n + 1, Len(text)))

RECURSIVE Flatten(_)
Flatten(lines) ==
    IF lines = <<>> THEN <<>> ELSE Head(lines) \o Flatten(Tail(lines))

-----------------------------------------------------------------------------
(* diffy: create_patch and apply, as Buffer uses them.  A patch is kept as *)
(* its hunk: the 0-based line where the hunk starts, the lines it expects  *)
(* (context and deleted lines) and the lines it leaves (context and        *)
(* inserted lines).  Texts of at most 2 * ContextLen lines give one hunk.  *)

\* diffy's default number of context lines around a change
ContextLen == 3

\* Number of leading lines two line sequences share
RECURSIVE CommonPrefix(_, _)
CommonPrefix(a, b) ==
    IF a # <<>> /\ b # <<>> /\ Head(a) = Head(b)
    THEN 1 + CommonPrefix(Tail(a), Tail(b))
    ELSE 0

Reverse(s) == [i \in 1..Len(s) |-> s[Len(s) + 1 - i]]

\* diffy::create_patch(original, modified): the hunk spans the first to the
\* last differing line, widened by ContextLen lines of context on each side.
CreatePatch(original, modified) ==
    LET o == LinesOf(original)
        m == LinesOf(modified)
        p == CommonPrefix(o, m)
        s == CommonPrefix(Reverse(SubSeq(o, p + 1, Len(o))),
                          Reverse(SubSeq(m, p + 1, Len(m))))
        start == Max(p - ContextLen, 0)
        endO  == Min(Len(o) - s + ContextLen, Len(o))
        endM  == Min(Len(m) - s + ContextLen, Len(m))
    IN  [pos  |-> start,
         pre  |-> SubSeq(o, start + 1, endO),
         post |-> SubSeq(m, start + 1, endM)]

\* diffy's interleave of the backward and the forward candidate positions
RECURSIVE Interleave(_, _)
Interleave(a, b) ==
    IF a = <<>> THEN b ELSE <<Head(a)>> \o Interleave(b, Tail(a))

\* diffy match_fragment: the hunk's expected lines are the image's lines at pos
MatchFragment(image, pre, pos) ==
    /\ pos + Len(pre) <= Len(image)
    /\ SubSeq(image, pos + 1, pos + Len(pre)) = pre

\* diffy find_position: the candidate positions in search order
Candidates(image, patch) ==
    LET pos == Min(patch.pos, Len(image))
        backward == [i \in 1..pos |-> pos - i]
        forward  == [i \in 1..Max(Len(image) - pos - 1, 0) |-> pos + i]
    IN  <<pos>> \o Interleave(backward, forward)

\* Whether diffy::apply(base, patch) is Ok
Applies(base, patch) ==
    LET image == LinesOf(base)
        cand  == Candidates(image, patch)
    IN  \E k \in 1..Len(cand) : MatchFragment(image, patch.pre, cand[k])

\* diffy::apply(base, patch) when it is Ok: the hunk spliced in at the first
\* candidate position that matches
ApplyPatch(base, patch) ==
    LET image == LinesOf(base)
        cand  == Candidates(image, patch)
        k     == CHOOSE k \in 1..Len(cand) :
                    /\ MatchFragment(image, patch.pre, cand[k])
                    /\ \A j \in 1..(k - 1) : ~MatchFragment(image, patch.pre, cand[j])
        pos   == cand[k]
    IN  Flatten(SubSeq(image, 1, pos) \o patch.post
                \o SubSeq(image, pos + Len(patch.pre) + 1, Len(image)))

-----------------------------------------------------------------------------
(* Values.                                                                 *)

\* Option<T>: None, or Some(x)
None == <<>>
Some(x) == <<x>>

\* A Selection (its extended range) and a single-cursor SelectionSet
Selection(start, end) == [start |-> start, end |-> end]
SelectionSet(primary, secondary) == [primary |-> primary, secondary |-> secondary]
Cursor(i) == SelectionSet(Selection(i, i), <<>>)

\* An Edit: replace the chars [start, end) by new
Edit(start, end, new) == [start |-> start, end |-> end, new |-> new]

\* Patch { selection_set, patch }
Patch(sel, diff) == [selection_set |-> sel, patch |-> diff]

\* What a Buffer method hands back: the buffer it leaves, how it ended
\* (Ok, Err, or Panic: the thread unwinds), and the value of an Ok
Outcome(b, result, value) == [buffer |-> b, result |-> result, value |-> value]

-----------------------------------------------------------------------------
(* Buffer (src/src/buffer.rs).                                             *)

\* Buffer::new / Buffer::from_path: the tree is kept as the text it was parsed from
NewBuffer(text, path, language) ==
    [rope |-> text, tree |-> text, undo_patch |-> <<>>, redo_patches |-> <<>>,
     path |-> path, language |-> language, diagnostics |-> <<>>]

\* update that also forgets what was undone
BufUpdateClearingRedo(b, text) == [b EXCEPT !.rope = text, !.tree = text, !.redo_patches = <<>>]

\* Buffer::update
BufUpdate(b, text) == [b EXCEPT !.rope = text, !.tree = text]

\* Buffer::reparse_tree
ReparseTree(b) == [b EXCEPT !.tree = b.rope]

\* Rope::remove of Buffer::apply_edit panics on a range that is reversed or
\* ends past len_chars
EditInRange(rope, edit) == edit.start <= edit.end /\ edit.end <= Len(rope)

\* Buffer::apply_edit on the rope
ApplyEdit(rope, edit) ==
    RopeInsert(RopeRemove(rope, edit.start, edit.end), edit.start, edit.new)

\* The fold of Buffer::apply_edit_transaction over the edits: the rope it
\* leaves, and whether an edit panicked (the edits before it stay applied)
RECURSIVE ApplyEdits(_, _)
ApplyEdits(rope, edits) ==
    IF edits = <<>> THEN [rope |-> rope, panicked |-> FALSE]
    ELSE IF ~EditInRange(rope, Head(edits)) THEN [rope |-> rope, panicked |-> TRUE]
    ELSE ApplyEdits(ApplyEdit(rope, Head(edits)), Tail(edits))

\* add_undo_patch recording the diff from before to after: a patch that
\* redoes the change instead of undoing it
AddUndoPatchForward(b, current_selection_set, before) ==
    IF before = b.rope THEN b
    ELSE [b EXCEPT !.redo_patches = <<>>,
                   !.undo_patch = Append(@, Patch(current_selection_set,
                                                  CreatePatch(before, b.rope)))]

\* add_undo_patch without redo_patches.clear()
AddUndoPatchKeepingRedo(b, current_selection_set, before) ==
    IF before = b.rope THEN b
    ELSE [b EXCEPT !.undo_patch = Append(@, Patch(current_selection_set,
                                                  CreatePatch(b.rope, before)))]

\* Buffer::add_undo_patch
AddUndoPatch(b, current_selection_set, before) ==
    IF before = b.rope THEN b
    ELSE [b EXCEPT !.redo_patches = <<>>,
                   !.undo_patch = Append(@, Patch(current_selection_set,
                                                  CreatePatch(b.rope, before)))]

\* Buffer::apply_edit_transaction
BufApplyEditTransaction(b, edits, current_selection_set) ==
    LET r == ApplyEdits(b.rope, edits)
        edited == [b EXCEPT !.rope = r.rope]
    IN  IF r.panicked THEN Outcome(edited, "Panic", None)
        ELSE Outcome(ReparseTree(AddUndoPatch(edited, current_selection_set, b.rope)),
                     "Ok", None)

\* Buffer::revert_change: value is the patch that reverts the revert
RevertChange(b, patch, current_selection_set) ==
    IF ~Applies(b.rope, patch.patch) THEN Outcome(b, "Panic", None)
    ELSE LET after == ApplyPatch(b.rope, patch.patch)
         IN  Outcome(ReparseTree([b EXCEPT !.rope = after]), "Ok",
                     Some(Patch(current_selection_set, CreatePatch(after, b.rope))))

\* undo returning the selection set it was called with instead of the one
\* the patch recorded
BufUndoReturningCurrent(b, current_selection_set) ==
    IF b.undo_patch = <<>> THEN Outcome(b, "Ok", None)
    ELSE LET patch == b.undo_patch[Len(b.undo_patch)]
             popped == [b EXCEPT !.undo_patch = SubSeq(@, 1, Len(@) - 1)]
             r == RevertChange(popped, patch, current_selection_set)
         IN  IF r.result # "Ok" THEN Outcome(r.buffer, r.result, None)
             ELSE Outcome([r.buffer EXCEPT !.redo_patches = Append(@, r.value[1])],
                          "Ok", Some(current_selection_set))

\* undo treating an empty undo stack as an error
BufUndoFailingOnEmpty(b, current_selection_set) ==
    IF b.undo_patch = <<>> THEN Outcome(b, "Err", None)
    ELSE LET patch == b.undo_patch[Len(b.undo_patch)]
             popped == [b EXCEPT !.undo_patch = SubSeq(@, 1, Len(@) - 1)]
             r == RevertChange(popped, patch, current_selection_set)
         IN  IF r.result # "Ok" THEN Outcome(r.buffer, r.result, None)
             ELSE Outcome([r.buffer EXCEPT !.redo_patches = Append(@, r.value[1])],
                          "Ok", Some(patch.selection_set))

\* Buffer::undo
BufUndo(b, current_selection_set) ==
    IF b.undo_patch = <<>> THEN Outcome(b, "Ok", None)
    ELSE LET patch == b.undo_patch[Len(b.undo_patch)]
             popped == [b EXCEPT !.undo_patch = SubSeq(@, 1, Len(@) - 1)]
             r == RevertChange(popped, patch, current_selection_set)
         IN  IF r.result # "Ok" THEN Outcome(r.buffer, r.result, None)
             ELSE Outcome([r.buffer EXCEPT !.redo_patches = Append(@, r.value[1])],
                          "Ok", Some(patch.selection_set))

\* Buffer::redo
BufRedo(b, current_selection_set) ==
    IF b.redo_patches = <<>> THEN Outcome(b, "Ok", None)
    ELSE LET patch == b.redo_patches[Len(b.redo_patches)]
             popped == [b EXCEPT !.redo_patches = SubSeq(@, 1, Len(@) - 1)]
             r == RevertChange(popped, patch, current_selection_set)
         IN  IF r.result # "Ok" THEN Outcome(r.buffer, r.result, None)
             ELSE Outcome([r.buffer EXCEPT !.undo_patch = Append(@, r.value[1])],
                          "Ok", Some(patch.selection_set))

\* What Formatter::format returns: Err, or Ok(content)
FormatErr == [ok |-> FALSE, content |-> <<>>]
FormatOk(content) == [ok |-> TRUE, content |-> content]

\* get_formatted_content without the check of the tree
GetFormattedContentOfAnyTree(b, has_error, formatted) ==
    IF b.language = "Formatter"
    THEN [content |-> IF formatted.ok THEN Some(formatted.content) ELSE None,
          invoked |-> TRUE]
    ELSE [content |-> None, invoked |-> FALSE]

\* get_formatted_content with a formatter for every buffer, with or without
\* a language
GetFormattedContentWithoutLanguage(b, has_error, formatted) ==
    IF ~has_error
    THEN [content |-> IF formatted.ok THEN Some(formatted.content) ELSE None,
          invoked |-> TRUE]
    ELSE [content |-> None, invoked |-> FALSE]

\* Buffer::get_formatted_content.  has_error is what tree.root_node().has_error()
\* answers and formatted what the language's formatter returns for the rope
\* when it is called; both are outside the buffer's control.  invoked tells
\* whether the formatter was called.
GetFormattedContent(b, has_error, formatted) ==
    IF ~has_error
    THEN IF b.language = "Formatter"
         THEN [content |-> IF formatted.ok THEN Some(formatted.content) ELSE None,
               invoked |-> TRUE]
         ELSE [content |-> None, invoked |-> FALSE]
    ELSE [content |-> None, invoked |-> FALSE]

\* save replacing the text by the formatted one without recording a patch
BufSaveWithoutPatch(b, current_selection_set, has_error, formatted) ==
    LET got == GetFormattedContent(b, has_error, formatted)
        saved == IF got.content # None THEN BufUpdate(b, got.content[1]) ELSE b
        content == IF got.content # None THEN got.content[1] ELSE b.rope
    IN  [buffer |-> saved, result |-> "Ok", value |-> b.path,
         written |-> IF b.path # None THEN Some(content) ELSE None,
         invoked |-> got.invoked]

\* Buffer::save: value is the path saved to, written the content written to
\* it, invoked whether the formatter was called
BufSave(b, current_selection_set, has_error, formatted) ==
    LET got == GetFormattedContent(b, has_error, formatted)
        saved == IF got.content # None
                 THEN AddUndoPatch(BufUpdate(b, got.content[1]),
                                   current_selection_set, b.rope)
                 ELSE b
        content == IF got.content # None THEN got.content[1] ELSE b.rope
    IN  [buffer |-> saved, result |-> "Ok", value |-> b.path,
         written |-> IF b.path # None THEN Some(content) ELSE None,
         invoked |-> got.invoked]

-----------------------------------------------------------------------------
(* The buffer driven by an arbitrary caller: every method of Buffer that   *)
(* touches the text or the history, called with inputs from small sets.    *)

\* The record of the last call: the method, how it ended, the value of its
\* Ok, which of the method's cases the call was, how many patches the redo
\* stack held when it was called, what it wrote to the buffer's path and
\* whether it called the formatter
Last(op, result, value, note) ==
    [op |-> op, result |-> result, value |-> value, note |-> note,
     redo_before |-> Len(buffer.redo_patches), written |-> None, invoked |-> FALSE]

\* What an entry of the undo or redo stack stands for: the text it was
\* recorded on, the text it leads back to, and the selection set that was
\* current when it was recorded
Entry(from, to, sel) == [from |-> from, to |-> to, sel |-> sel]

Top(stack) == stack[Len(stack)]
Pop(stack) == SubSeq(stack, 1, Len(stack) - 1)

\* A panic unwinds the thread that runs the editor: nothing runs after it,
\* and nothing else runs while the editor is inside get_valid_selection
Alive == last.result # "Panic" /\ validity = <<>>

\* The texts an edit may insert
NewTexts == {<<>>, <<"a">>, <<NL>>}

\* The edits of a transaction: any range of at most one char up to MaxLen + 1,
\* so that some ranges end past the end of the rope
Edits ==
    {Edit(s, s + l, new) : s \in 0..MaxLen, l \in 0..1, new \in NewTexts}

\* The two-edit transactions: a deletion or an insertion at the start,
\* then an edit further on
FirstEdits == {Edit(0, 1, <<>>), Edit(0, 0, <<NL>>)}
SecondEdits == {Edit(0, 0, <<"a">>), Edit(1, 2, <<>>)}

\* The selection sets the caller may hold
CallerSelections == {Cursor(0), Cursor(1)}

\* An EditTransaction: its edits, and the selection set its Select actions
\* leave the caller with (a cursor at the first edit, here)
Transaction(edits) ==
    [edits |-> edits, selection |-> Cursor(Min(Head(edits).start, 1))]

Transactions ==
    {Transaction(<<e>>) : e \in Edits}
        \cup {Transaction(<<e1, e2>>) : e1 \in FirstEdits, e2 \in SecondEdits}

\* The texts update is called with
UpdateTexts == {<<>>, <<"a", NL>>}

\* The texts the buffer is created with
InitTexts == {<<"a", NL>>}

\* What the formatter may return
FormatResults == {FormatErr, FormatOk(<<"a", NL>>), FormatOk(<<"a">>)}

\* What a save meets: whether the tree has an error, and what the formatter
\* would return
SaveInputs ==
    {[has_error |-> TRUE, formatted |-> FormatOk(<<"a", NL>>)]}
        \cup {[has_error |-> FALSE, formatted |-> f] : f \in FormatResults}

\* The state after construction: a buffer created by Buffer::from_path (or
\* Buffer::new, without path and language) and an editor on it
Setup(texts, paths, languages) ==
    /\ \E text \in texts, path \in paths, language \in languages :
            buffer = NewBuffer(text, path, language)
    /\ selection_set = Cursor(0)
    /\ mode = "Normal"
    /\ clipboard = <<>>
    /\ jumps = <<>>
    /\ validity = <<>>
    /\ screen = <<>>
    /\ last = [op |-> "new", result |-> "Ok", value |-> None, note |-> "new",
               redo_before |-> 0, written |-> None, invoked |-> FALSE]
    /\ hist_undo = <<>>
    /\ hist_redo = <<>>

Init == Setup(InitTexts, {Some("main.rs")}, {"Formatter"})

\* The history variables after a forward edit that took buffer to b
Recorded(b) ==
    IF Len(b.undo_patch) = Len(buffer.undo_patch) + 1
    THEN /\ hist_undo' = Append(hist_undo, Entry(b.rope, buffer.rope, selection_set))
         /\ hist_redo' = <<>>
    ELSE UNCHANGED <<hist_undo, hist_redo>>

\* buffer.apply_edit_transaction(edits, selection_set), after which the
\* caller holds the selection set the transaction selects
ApplyEditTransaction ==
    /\ Alive
    /\ \E edit_transaction \in Transactions :
        LET r == BufApplyEditTransaction(buffer, edit_transaction.edits, selection_set)
        IN  /\ Len(r.buffer.rope) <= MaxLen
            /\ Len(r.buffer.undo_patch) <= MaxHist
            /\ buffer' = r.buffer
            /\ selection_set' = IF r.result = "Ok" THEN edit_transaction.selection
                                ELSE selection_set
            /\ last' = Last("apply_edit_transaction", r.result, r.value,
                            IF r.result # "Ok" THEN "out_of_range"
                            ELSE IF r.buffer.rope = buffer.rope THEN "no_change"
                            ELSE "changed")
            /\ Recorded(r.buffer)
    /\ UNCHANGED <<mode, clipboard, jumps, validity, screen>>

\* buffer.undo(selection_set); the caller takes the selection set returned
Undo ==
    /\ Alive
    /\ LET r == BufUndo(buffer, selection_set)
       IN  /\ buffer' = r.buffer
           /\ selection_set' = IF r.value # None THEN r.value[1] ELSE selection_set
           /\ last' = Last("undo", r.result, r.value,
                           IF buffer.undo_patch = <<>> THEN "empty_stack"
                           ELSE IF r.result # "Ok" THEN "patch_mismatch"
                           ELSE IF hist_undo = <<>> \/ buffer.rope # Top(hist_undo).from
                                THEN "reverted_other"
                           ELSE "reverted")
           /\ IF r.result = "Ok" /\ buffer.undo_patch # <<>>
              THEN /\ hist_undo' = Pop(hist_undo)
                   /\ hist_redo' = Append(hist_redo,
                                          Entry(r.buffer.rope, buffer.rope, selection_set))
              ELSE UNCHANGED <<hist_undo, hist_redo>>
    /\ UNCHANGED <<mode, clipboard, jumps, validity, screen>>

\* buffer.redo(selection_set); the caller takes the selection set returned
Redo ==
    /\ Alive
    /\ LET r == BufRedo(buffer, selection_set)
       IN  /\ buffer' = r.buffer
           /\ selection_set' = IF r.value # None THEN r.value[1] ELSE selection_set
           /\ last' = Last("redo", r.result, r.value,
                           IF buffer.redo_patches = <<>> THEN "empty_stack"
                           ELSE IF r.result # "Ok" THEN "patch_mismatch"
                           ELSE IF hist_redo = <<>> \/ buffer.rope # Top(hist_redo).from
                                THEN "reverted_other"
                           ELSE "reverted")
           /\ IF r.result = "Ok" /\ buffer.redo_patches # <<>>
              THEN /\ hist_redo' = Pop(hist_redo)
                   /\ hist_undo' = Append(hist_undo,
                                          Entry(r.buffer.rope, buffer.rope, selection_set))
              ELSE UNCHANGED <<hist_undo, hist_redo>>
    /\ UNCHANGED <<mode, clipboard, jumps, validity, screen>>

\* buffer.update(text)
Update ==
    /\ Alive
    /\ \E text \in UpdateTexts :
        /\ buffer' = BufUpdate(buffer, text)
        /\ last' = Last("update", "Ok", None, "update")
    /\ UNCHANGED <<selection_set, mode, clipboard, jumps, validity, screen, hist_undo, hist_redo>>

\* buffer.save(selection_set)
Save ==
    /\ Alive
    /\ \E input \in SaveInputs :
        LET has_error == input.has_error
            formatted == input.formatted
            r == BufSave(buffer, selection_set, has_error, formatted)
        IN  /\ Len(r.buffer.undo_patch) <= MaxHist
            /\ buffer' = r.buffer
            /\ last' = [Last("save", r.result, r.value,
                             IF has_error THEN "tree_error"
                             ELSE IF buffer.language # "Formatter" THEN "no_formatter"
                             ELSE IF ~formatted.ok THEN "formatter_error"
                             ELSE IF r.buffer.rope = buffer.rope THEN "no_change"
                             ELSE "changed")
                        EXCEPT !.written = r.written, !.invoked = r.invoked]
            /\ Recorded(r.buffer)
    /\ UNCHANGED <<selection_set, mode, clipboard, jumps, validity, screen>>

\* The caller moves its selection
Select ==
    /\ Alive
    /\ \E selected \in CallerSelections :
        /\ selected # selection_set
        /\ selection_set' = selected
        /\ last' = Last("select", "Ok", None, "select")
    /\ UNCHANGED <<buffer, mode, clipboard, jumps, validity, screen, hist_undo, hist_redo>>

\* The caller edits, undoes, redoes, saves and moves its selection
Next ==
    \/ ApplyEditTransaction
    \/ Undo
    \/ Redo
    \/ Save
    \/ Select

Spec == Init /\ [][Next]_vars

\* The same caller, with the text also replaced as a whole between its calls
NextUpdate ==
    \/ ApplyEditTransaction
    \/ Undo
    \/ Redo
    \/ Save
    \/ Select
    \/ Update

SpecUpdate == Init /\ [][NextUpdate]_vars

-----------------------------------------------------------------------------
(* Split view: two editors made by Editor::from_buffer on one buffer cell. *)
(* The editor that takes the calls holds selection_set; the selection set  *)
(* of the other editor is kept in screen.other, which no call of the first *)
(* editor touches.                                                         *)

\* The editor that takes the calls changes: the two editors change roles
SwitchEditor ==
    /\ Alive
    /\ screen.other # selection_set
    /\ selection_set' = screen.other
    /\ screen' = [other |-> selection_set]
    /\ last' = Last("switch_editor", "Ok", None, "focus")
    /\ UNCHANGED <<buffer, mode, clipboard, jumps, validity, hist_undo, hist_redo>>

NextSplit ==
    \/ ApplyEditTransaction
    \/ Undo
    \/ Redo
    \/ Select
    \/ SwitchEditor

\* Editor::from_buffer, twice on the same buffer: each editor starts with
\* the default selection
InitSplit ==
    /\ buffer \in {NewBuffer(text, Some("main.rs"), "None") : text \in InitTexts}
    /\ selection_set = Cursor(0)
    /\ mode = "Normal"
    /\ clipboard = <<>>
    /\ jumps = <<>>
    /\ validity = <<>>
    /\ screen = [other |-> Cursor(0)]
    /\ last = [op |-> "new", result |-> "Ok", value |-> None, note |-> "new",
               redo_before |-> 0, written |-> None, invoked |-> FALSE]
    /\ hist_undo = <<>>
    /\ hist_redo = <<>>

SpecSplit == InitSplit /\ [][NextSplit]_vars

\* The dispatches Editor::save returns for what Buffer::save returned: none
\* when the buffer has no path
EditorSaveDispatches(saved) ==
    IF saved = None THEN <<>>
    ELSE <<[dispatch |-> "DocumentDidSave", path |-> saved[1]],
           [dispatch |-> "DocumentDidChange", path |-> saved[1]]>>

\* A buffer created by Buffer::new: it has no path, and no language, which
\* only Buffer::from_path sets
InitScratch == Setup(InitTexts, {None}, {"None"})

\* The caller of a buffer without path
SpecScratch == InitScratch /\ [][Next]_vars

-----------------------------------------------------------------------------
(* Editor (src/src/components/editor.rs): the dispatches that edit the     *)
(* text through an EditTransaction, with one ActionGroup per cursor.       *)

\* longest text (in chars) the guards of the editor let the rope grow to
MaxText == 3
\* most patches the guards of the editor let the undo stack grow to
MaxEditorHist == 1

\* str::len: the length of a string in bytes of UTF-8
RECURSIVE ByteLen(_)
ByteLen(text) ==
    IF text = <<>> THEN 0
    ELSE (IF Head(text) \in {Wide, WideBlank} THEN 2 ELSE 1) + ByteLen(Tail(text))

\* Rope::len_lines: one more than the number of line breaks
LenLines(rope) == Cardinality({i \in 1..Len(rope) : rope[i] = NL}) + 1

\* Rope::try_line_to_char: the char index of the start of a line, the line
\* one past the last one being at len_chars; no index for a line further on
TryLineToChar(rope, line) ==
    IF line > LenLines(rope) THEN None
    ELSE IF line = LenLines(rope) THEN Some(Len(rope))
    ELSE IF line = 0 THEN Some(0)
    ELSE Some(CHOOSE i \in 1..Len(rope) :
                /\ rope[i] = NL
                /\ Cardinality({j \in 1..i : rope[j] = NL}) = line)

\* Rope::try_char_to_line
TryCharToLine(rope, char_index) ==
    IF char_index > Len(rope) THEN None
    ELSE Some(Cardinality({j \in 1..char_index : rope[j] = NL}))

\* Buffer::char_to_position
CharToPosition(b, char_index) ==
    LET line == TryCharToLine(b.rope, char_index)
    IN  IF line = None THEN None
        ELSE Some([line |-> line[1],
                   column |-> Max(char_index - TryLineToChar(b.rope, line[1])[1], 0)])

\* Buffer::position_to_char: the column is added to the start of the line
\* whatever the length of the line
PositionToChar(b, position) ==
    LET start == TryLineToChar(b.rope, position.line)
    IN  IF start = None THEN None ELSE Some(start[1] + position.column)

\* SelectionSet::map: the primary selection first, then the secondary ones
Selections(set) == <<set.primary>> \o set.secondary

\* An ActionGroup of the editor: the Edit of one cursor and its Select, if any
ActionGroup(edit, select) == [edit |-> edit, select |-> select]

\* The chars an edit adds to the text, less the chars it removes
NetOffset(edit) == Len(edit.new) - (edit.end - edit.start)

\* The groups in the order of their edits' starts, each with its place
\* among the inputs
RECURSIVE SortGroups(_)
SortGroups(groups) ==
    IF groups = <<>> THEN <<>>
    ELSE LET m == CHOOSE i \in 1..Len(groups) : \A j \in 1..Len(groups) :
                    \/ groups[i].edit.start < groups[j].edit.start
                    \/ groups[i].edit.start = groups[j].edit.start /\ i <= j
         IN  <<groups[m]>>
                \o SortGroups([k \in 1..(Len(groups) - 1) |->
                                  IF k < m THEN groups[k] ELSE groups[k + 1]])

\* The edit and the selection of each group moved by the chars the groups
\* before it add or remove
RECURSIVE ShiftGroups(_, _)
ShiftGroups(groups, offset) ==
    IF groups = <<>> THEN <<>>
    ELSE LET group == Head(groups)
             edit == Edit(group.edit.start + offset, group.edit.end + offset,
                          group.edit.new)
             select == [i \in 1..Len(group.select) |->
                           [group.select[i] EXCEPT !.start = @ + offset,
                                                   !.end = @ + offset]]
         IN  <<[index |-> group.index, edit |-> edit, select |-> select]>>
                \o ShiftGroups(Tail(groups), offset + NetOffset(group.edit))

\* No edit of a group starts before the edit of the group before it ends
Disjoint(groups) ==
    LET sorted == SortGroups(groups)
    IN  \A i \in 1..(Len(sorted) - 1) : sorted[i].edit.end <= sorted[i + 1].edit.start

\* EditTransaction::from_action_groups: the edits in document order, each
\* moved by what the edits before it add or remove, and the selections
\* moved the same way
FromActionGroups(groups) ==
    LET indexed == [i \in 1..Len(groups) |->
                       [index |-> i, edit |-> groups[i].edit, select |-> groups[i].select]]
        shifted == ShiftGroups(SortGroups(indexed), 0)
        selecting == SelectSeq(shifted, LAMBDA g : g.select # <<>>)
    IN  [edits |-> [i \in 1..Len(shifted) |-> shifted[i].edit],
         selects |-> [i \in 1..Len(selecting) |->
                         [index |-> selecting[i].index, selection |-> selecting[i].select[1]]]]

\* EditTransaction::selection_set: the selections of the transaction, the
\* one of the first input group being the primary one; the current
\* selection set when the transaction selects nothing
TransactionSelectionSet(edit_transaction, current_selection_set) ==
    LET selects == edit_transaction.selects
    IN  IF selects = <<>> THEN current_selection_set
        ELSE LET p == CHOOSE i \in 1..Len(selects) :
                        \A j \in 1..Len(selects) : selects[i].index <= selects[j].index
             IN  [current_selection_set EXCEPT
                     !.primary = selects[p].selection,
                     !.secondary = [k \in 1..(Len(selects) - 1) |->
                                       IF k < p THEN selects[k].selection
                                       ELSE selects[k + 1].selection]]

\* Editor::apply_edit_transaction: the buffer applies the edits and the
\* editor takes the selection set of the transaction
EditorApplyEditTransaction(b, current_selection_set, groups) ==
    LET edit_transaction == FromActionGroups(groups)
        r == BufApplyEditTransaction(b, edit_transaction.edits, current_selection_set)
    IN  IF r.result # "Ok" THEN [r EXCEPT !.value = current_selection_set]
        ELSE [r EXCEPT !.value =
                  TransactionSelectionSet(edit_transaction, current_selection_set)]

\* The groups of Editor::insert: s at the cursor, and the cursor moved by
\* s.len()
InsertGroups(set, s) ==
    [i \in 1..Len(Selections(set)) |->
        LET selection == Selections(set)[i]
        IN  ActionGroup(Edit(selection.start, selection.start, s),
                        <<Selection(selection.start + ByteLen(s),
                                    selection.start + ByteLen(s))>>)]

\* The groups of Editor::change
ChangeGroups(set) ==
    [i \in 1..Len(Selections(set)) |->
        LET range == Selections(set)[i]
        IN  ActionGroup(Edit(range.start, range.end, <<>>),
                        <<Selection(range.start, range.start)>>)]

\* The groups of Editor::backspace
BackspaceGroups(set) ==
    [i \in 1..Len(Selections(set)) |->
        LET range == Selections(set)[i]
            start == Max(range.start - 1, 0)
        IN  ActionGroup(Edit(start, range.start, <<>>), <<Selection(start, start)>>)]

\* The selection set of Editor::enter_insert_mode: SelectionSet::apply
\* replaces every selection of the set
InsertModeSelectionSet(set, direction) ==
    LET Collapse(selection) ==
            LET char_index == IF direction = "Start" THEN selection.start
                              ELSE selection.end
            IN  [selection EXCEPT !.start = char_index, !.end = char_index]
    IN  [set EXCEPT !.primary = Collapse(@),
                    !.secondary = [i \in 1..Len(@) |-> Collapse(@[i])]]

\* The selection set of Editor::enter_normal_mode when the mode is Insert
NormalModeSelectionSet(b, set) ==
    LET Widen(selection) ==
            LET position == CharToPosition(b, selection.start)
            IN  IF position # None
                THEN LET start == selection.start
                                    - (IF position[1].column > 0 THEN 1 ELSE 0)
                     IN  [selection EXCEPT !.start = start, !.end = start + 1]
                ELSE selection
    IN  [set EXCEPT !.primary = Widen(@),
                    !.secondary = [i \in 1..Len(@) |-> Widen(@[i])]]

\* The char range of a PositionalEdit, None when a position has no char index
PositionalRange(b, edit) ==
    LET start == PositionToChar(b, edit.start)
        end == PositionToChar(b, edit.end)
    IN  IF start = None \/ end = None THEN None
        ELSE Some([start |-> start[1], end |-> end[1]])

\* The groups of Editor::apply_positional_edits: filter_map leaves out the
\* edits whose range has no char indices; the group of the first edit of
\* the list selects the end of its new text
PositionalGroups(b, edits) ==
    LET indices == SelectSeq([i \in 1..Len(edits) |-> i],
                             LAMBDA i : PositionalRange(b, edits[i]) # None)
    IN  [k \in 1..Len(indices) |->
            LET edit == edits[indices[k]]
                range == PositionalRange(b, edit)[1]
                end == range.start + Len(edit.new_text)
            IN  ActionGroup(Edit(range.start, range.end, edit.new_text),
                            IF indices[k] = 1 THEN <<Selection(end, end)>> ELSE <<>>)]

-----------------------------------------------------------------------------
(* The editor driven by its dispatches (Editor::apply_dispatch) and by the *)
(* edits of a language server (Editor::apply_positional_edits).            *)

\* The contents SetContent is dispatched with
Contents == {<<>>, <<"a", NL>>}

\* The strings Insert is dispatched with: an ASCII char and a char of two bytes
InsertStrings == {<<"a">>, <<Wide>>}

\* The selections a movement can select in a text: a cursor or one char
SelectionsIn(rope) ==
    {range \in [start : 0..Len(rope), end : 0..Len(rope)] :
        range.start <= range.end /\ range.end <= range.start + 1}

\* The selection sets a movement or an added cursor can leave: one
\* selection, or two cursors
SelectionSetsIn(rope) ==
    {SelectionSet(p, <<>>) : p \in SelectionsIn(rope)}
        \cup {SelectionSet(Selection(p, p), <<Selection(q, q)>>) :
                p \in 0..Len(rope), q \in 1..Len(rope)}

\* The positions a language server may send: a line past the last one has
\* no char index
Positions == {[line |-> l, column |-> c] : l \in {0, MaxText + 2}, c \in 0..1}

\* The edits a language server may send: an insertion at a position, or
\* the replacement of the first char
PositionalEdits ==
    {[start |-> p, end |-> p, new_text |-> <<"a">>] : p \in Positions}
        \cup {[start |-> [line |-> 0, column |-> 0], end |-> [line |-> 0, column |-> 1],
               new_text |-> <<"a">>]}

\* The lists of edits of one file of a workspace edit
PositionalEditLists ==
    {<<e>> : e \in PositionalEdits}
        \cup {<<e1, e2>> : e1 \in {e \in PositionalEdits : e.start.column = 0},
                           e2 \in {e \in PositionalEdits : e.start = e.end}}

InitEditor == Setup({<<>>}, {None}, {"None"})

\* What an editor method that applies the groups of its cursors leaves:
\* nothing is left of the call when it panics but the edits already applied
Transact(op, input, note, groups, new_mode) ==
    LET r == EditorApplyEditTransaction(buffer, selection_set, groups)
    IN  /\ Disjoint(groups)
        /\ Len(r.buffer.rope) <= MaxText
        /\ Len(r.buffer.undo_patch) <= MaxEditorHist
        /\ buffer' = r.buffer
        /\ selection_set' = r.value
        /\ mode' = IF r.result = "Ok" THEN new_mode ELSE mode
        /\ last' = Last(op, r.result, input, note)
        /\ UNCHANGED <<clipboard, jumps, validity, screen, hist_undo, hist_redo>>

\* Every selection of the set is a cursor
Collapsed(set) ==
    \A i \in 1..Len(Selections(set)) : Selections(set)[i].start = Selections(set)[i].end

\* DispatchEditor::SetContent: Editor::update_buffer
SetContent ==
    /\ Alive
    /\ \E content \in Contents :
        /\ buffer' = BufUpdate(buffer, content)
        /\ last' = Last("set_content", "Ok", content, "update")
    /\ UNCHANGED <<selection_set, mode, clipboard, jumps, validity, screen, hist_undo, hist_redo>>

\* DispatchEditor::Insert: Editor::insert, at cursors
Insert ==
    /\ Alive
    /\ Collapsed(selection_set)
    /\ \E s \in InsertStrings :
        Transact("insert", s, "cursors", InsertGroups(selection_set, s), mode)

\* DispatchEditor::Change: Editor::change
Change ==
    /\ Alive
    /\ Transact("change", None, "change", ChangeGroups(selection_set), "Insert")

\* DispatchEditor::Backspace: Editor::backspace
Backspace ==
    /\ Alive
    /\ Transact("backspace", None, "backspace", BackspaceGroups(selection_set), mode)

\* DispatchEditor::EnterInsertMode: Editor::enter_insert_mode
EnterInsertMode ==
    /\ Alive
    /\ \E direction \in {"Start", "End"} :
        /\ selection_set' = InsertModeSelectionSet(selection_set, direction)
        /\ last' = Last("enter_insert_mode", "Ok", direction, "mode")
    /\ mode' = "Insert"
    /\ UNCHANGED <<buffer, clipboard, jumps, validity, screen, hist_undo, hist_redo>>

\* DispatchEditor::EnterNormalMode: Editor::enter_normal_mode
EnterNormalMode ==
    /\ Alive
    /\ selection_set' = IF mode = "Insert"
                        THEN NormalModeSelectionSet(buffer, selection_set)
                        ELSE selection_set
    /\ mode' = "Normal"
    /\ last' = Last("enter_normal_mode", "Ok", None, "mode")
    /\ UNCHANGED <<buffer, clipboard, jumps, validity, screen, hist_undo, hist_redo>>

\* Dispatch::UpdateSelectionSet, which a movement (DispatchEditor::MoveSelection)
\* or an added cursor ends with: the editor takes a selection set of the text
MoveSelection ==
    /\ Alive
    /\ \E selected \in SelectionSetsIn(buffer.rope) :
        /\ selected # selection_set
        /\ \A i \in 1..Len(selected.secondary) :
                selected.primary.end <= selected.secondary[i].start
        /\ selection_set' = selected
        /\ last' = Last("move_selection", "Ok", None, "select")
    /\ UNCHANGED <<buffer, mode, clipboard, jumps, validity, screen, hist_undo, hist_redo>>

\* Editor::apply_positional_edits with the edits of a language server
ApplyPositionalEdits ==
    /\ Alive
    /\ \E edits \in PositionalEditLists :
        Transact("apply_positional_edits", edits,
                 IF \A i \in 1..Len(edits) : PositionalRange(buffer, edits[i]) # None
                 THEN "convertible" ELSE "not_convertible",
                 PositionalGroups(buffer, edits), mode)

NextEditor ==
    \/ SetContent
    \/ Insert
    \/ Change
    \/ Backspace
    \/ EnterInsertMode
    \/ EnterNormalMode
    \/ MoveSelection
    \/ ApplyPositionalEdits

SpecEditor == InitEditor /\ [][NextEditor]_vars

-----------------------------------------------------------------------------
(* Selection modes, and the dispatches Kill, Cut and Paste that are        *)
(* defined in terms of them (Editor::kill, Editor::cut, Editor::paste).    *)
(* The texts are made of the letter "a", the separator "," and the blank   *)
(* " ".  The syntax tree of such a text is a list whose named children are *)
(* the maximal runs of letters.                                            *)

\* most patches the guard of Kill lets the undo stack grow to
MaxKillHist == 2
\* longest text (in chars) the guard of Paste lets the rope grow to
MaxPasteText == 4
\* most patches the guards of Cut and Paste let the undo stack grow to
MaxPasteHist == 2
\* most selections the guard of the added cursor lets a selection set hold
MaxCursors == 2

Letters == {"a"}
Whitespace == {" ", NL, WideBlank}

\* str::trim().is_empty()
IsBlank(text) == \A i \in 1..Len(text) : text[i] \in Whitespace

\* A CharIndexRange
CharIndexRange(start, end) == [start |-> start, end |-> end]

\* A Selection with the text it copied, if any; its range is its extended range
CopiedSelection(start, end, copied_text) ==
    [start |-> start, end |-> end, copied_text |-> copied_text]

\* SelectionSet { primary, secondary, mode }
ModalSelectionSet(selection_mode, primary, secondary) ==
    [primary |-> primary, secondary |-> secondary, mode |-> selection_mode]

\* CharIndexRange::len and the range of a selection
RangeLen(range) == range.end - range.start
RangeOf(selection) == CharIndexRange(selection.start, selection.end)

\* Rope::slice panics on a range that is reversed or ends past len_chars
InText(rope, range) == range.start <= range.end /\ range.end <= Len(rope)

\* Buffer::slice
Slice(rope, range) == SubSeq(rope, range.start + 1, range.end)

\* The selection modes a dispatch may set; Custom is the mode of a new editor
SelectionModes == {"Character", "SyntaxTree", "Find"}

\* SelectionMode::is_contiguous
IsContiguous(selection_mode) == selection_mode \in {"Character", "SyntaxTree"}

\* The named children of the list: the maximal runs of letters
Tokens(rope) ==
    {range \in [start : 0..Len(rope), end : 0..Len(rope)] :
        /\ range.start < range.end
        /\ \A i \in (range.start + 1)..range.end : rope[i] \in Letters
        /\ range.start = 0 \/ rope[range.start] \notin Letters
        /\ range.end = Len(rope) \/ rope[range.end + 1] \notin Letters}

\* SelectionMode::iter: the elements of a mode in a text.  Character: every
\* char; SyntaxTree: the named siblings; Find: the matches of the literal
\* "a"; Custom has no element.
ModeIter(rope, selection_mode) ==
    CASE selection_mode = "Character" ->
            {CharIndexRange(i, i + 1) : i \in 0..(Len(rope) - 1)}
      [] selection_mode = "SyntaxTree" -> Tokens(rope)
      [] selection_mode = "Find" ->
            {CharIndexRange(i, i + 1) : i \in {j \in 0..(Len(rope) - 1) : rope[j + 1] = "a"}}
      [] OTHER -> {}

\* The element of a non-empty set of elements that starts first, last
FirstOf(ranges) == CHOOSE r \in ranges : \A q \in ranges : r.start <= q.start
LastOf(ranges) == CHOOSE r \in ranges : \A q \in ranges : q.start <= r.start

\* Selection::get_selection_: the range a movement leads to from a range;
\* the range itself when the mode has no such element
ApplyMovement(rope, range, selection_mode, movement) ==
    LET iter == ModeIter(rope, selection_mode)
        after == {r \in iter : r.start > range.start}
        before == {r \in iter : r.start < range.start}
        containing == {r \in iter : r.start <= range.start /\ range.start < r.end}
        from == {r \in iter : r.start >= range.start}
    IN  CASE movement = "Next" -> IF after = {} THEN range ELSE FirstOf(after)
          [] movement = "Previous" -> IF before = {} THEN range ELSE LastOf(before)
          [] OTHER -> IF containing # {} THEN LastOf(containing)
                      ELSE IF from # {} THEN FirstOf(from)
                      ELSE range

\* SelectionSet::generate: every selection of the set moved under the mode
Generate(rope, set, selection_mode, movement) ==
    LET Move(selection) ==
            LET range == ApplyMovement(rope, RangeOf(selection), selection_mode, movement)
            IN  [selection EXCEPT !.start = range.start, !.end = range.end]
    IN  [primary |-> Move(set.primary),
         secondary |-> [i \in 1..Len(set.secondary) |-> Move(set.secondary[i])],
         mode |-> selection_mode]

\* SelectionSet::add_selection: the element the movement leads to from the
\* last selection of the set becomes a secondary selection
AddSelection(rope, set, movement) ==
    LET last_selection == Selections(set)[Len(Selections(set))]
        range == ApplyMovement(rope, RangeOf(last_selection), set.mode, movement)
    IN  IF range = RangeOf(last_selection) THEN set
        ELSE [set EXCEPT !.secondary =
                Append(@, CopiedSelection(range.start, range.end, None))]

\* Selection::copied_text(context): the text the selection copied, the
\* content of the clipboard when it copied none
CopiedText(selection, clipboard_content) ==
    IF selection.copied_text # None THEN selection.copied_text
    ELSE clipboard_content

\* Kill deleting the current range only, whatever follows it
KillRangesCurrentOnly(rope, selection_mode, current_range) ==
    <<current_range, CharIndexRange(current_range.start, current_range.start + 1)>>

\* Kill reaching for the next element only over a gap of whitespace,
\* whatever the mode
KillRangesOverBlankOnly(rope, selection_mode, current_range) ==
    LET next_range == ApplyMovement(rope, current_range, selection_mode, "Next")
        start == current_range.start
        default == <<current_range, CharIndexRange(start, start + 1)>>
    IN  IF current_range.end > next_range.start THEN default
        ELSE IF ~IsBlank(Slice(rope, CharIndexRange(current_range.end, next_range.start)))
        THEN default
        ELSE LET delete_range == CharIndexRange(start, next_range.start)
             IN  <<delete_range,
                   CharIndexRange(next_range.start - RangeLen(delete_range),
                                  next_range.end - RangeLen(delete_range))>>

\* Kill reaching for the next element whatever lies before it
KillRangesAlwaysToNext(rope, selection_mode, current_range) ==
    LET next_range == ApplyMovement(rope, current_range, selection_mode, "Next")
        start == current_range.start
    IN  IF current_range.end > next_range.start
        THEN <<current_range, CharIndexRange(start, start + 1)>>
        ELSE LET delete_range == CharIndexRange(start, next_range.start)
             IN  <<delete_range,
                   CharIndexRange(next_range.start - RangeLen(delete_range),
                                  next_range.end - RangeLen(delete_range))>>

\* The (delete_range, select_range) of Editor::kill for one selection
KillRanges(rope, selection_mode, current_range) ==
    LET next_range == ApplyMovement(rope, current_range, selection_mode, "Next")
        start == current_range.start
        default == <<current_range, CharIndexRange(start, start + 1)>>
    IN  IF current_range.end > next_range.start THEN default
        ELSE IF /\ ~IsBlank(Slice(rope, CharIndexRange(current_range.end, next_range.start)))
                /\ ~IsContiguous(selection_mode)
        THEN default
        ELSE LET delete_range == CharIndexRange(start, next_range.start)
             IN  <<delete_range,
                   CharIndexRange(next_range.start - RangeLen(delete_range),
                                  next_range.end - RangeLen(delete_range))>>

\* The ranges Editor::kill passes to Buffer::slice: the gap up to the next
\* element, when the next element does not start inside the current range
KillSlices(rope, set) ==
    {CharIndexRange(Selections(set)[i].end,
                    ApplyMovement(rope, RangeOf(Selections(set)[i]), set.mode, "Next").start) :
        i \in {j \in 1..Len(Selections(set)) :
                Selections(set)[j].end
                    <= ApplyMovement(rope, RangeOf(Selections(set)[j]), set.mode, "Next").start}}

\* The groups of Editor::kill
KillGroups(b, set) ==
    [i \in 1..Len(Selections(set)) |->
        LET selection == Selections(set)[i]
            ranges == KillRanges(b.rope, set.mode, RangeOf(selection))
        IN  ActionGroup(Edit(ranges[1].start, ranges[1].end, <<>>),
                        <<[selection EXCEPT !.start = ranges[2].start,
                                            !.end = ranges[2].end]>>)]

\* The groups of Editor::cut
CutGroups(b, set) ==
    [i \in 1..Len(Selections(set)) |->
        LET current_range == RangeOf(Selections(set)[i])
        IN  ActionGroup(Edit(current_range.start, current_range.end, <<>>),
                        <<CopiedSelection(current_range.start, current_range.start,
                                          Some(Slice(b.rope, current_range)))>>)]

\* cut setting the clipboard whatever the number of cursors
CutClipboardOfAnySet(b, set, clipboard_content) ==
    Some(Slice(b.rope, RangeOf(set.primary)))

\* The clipboard after Editor::cut: Dispatch::SetClipboardContent with the
\* text of the primary selection when there is only one cursor
CutClipboard(b, set, clipboard_content) ==
    IF set.secondary = <<>> THEN Some(Slice(b.rope, RangeOf(set.primary)))
    ELSE clipboard_content

\* paste putting the text in the place of the selection
PasteGroupsReplacing(set, direction, clipboard_content) ==
    [i \in 1..Len(Selections(set)) |->
        LET current_range == RangeOf(Selections(set)[i])
            copied == CopiedText(Selections(set)[i], clipboard_content)
            copied_text == IF copied = None THEN <<>> ELSE copied[1]
        IN  ActionGroup(Edit(current_range.start, current_range.end, copied_text),
                        <<CopiedSelection(current_range.start,
                                          current_range.start + Len(copied_text), None)>>)]

\* The groups of Editor::paste
PasteGroups(set, direction, clipboard_content) ==
    [i \in 1..Len(Selections(set)) |->
        LET current_range == RangeOf(Selections(set)[i])
            insertion_range_start == IF direction = "Start" THEN current_range.start
                                     ELSE current_range.end
            copied == CopiedText(Selections(set)[i], clipboard_content)
            copied_text == IF copied = None THEN <<>> ELSE copied[1]
        IN  ActionGroup(Edit(insertion_range_start, insertion_range_start, copied_text),
                        <<CopiedSelection(insertion_range_start,
                                          insertion_range_start + Len(copied_text), None)>>)]

-----------------------------------------------------------------------------
(* The editor driven by the dispatches that select under a mode and by     *)
(* Kill, Cut and Paste.                                                    *)

\* The texts an editor is created on
KillContents ==
    {<<"a", ",", "a">>, <<"a", " ", "a">>, <<"a", ",", " ", "a">>}

\* The contents App(SetClipboardContent) sets
ClipboardContents == {<<"a">>}

\* The texts an editor that cuts and pastes is created on
PasteContents == {<<>>, <<"a", ",", "a">>}

\* Editor::from_text: a buffer without path, the selection mode Custom and
\* the default selection
SetupEditor(contents) ==
    /\ \E text \in contents : buffer = NewBuffer(text, None, "None")
    /\ selection_set = ModalSelectionSet("Custom", CopiedSelection(0, 0, None), <<>>)
    /\ mode = "Normal"
    /\ clipboard = None
    /\ jumps = <<>>
    /\ validity = <<>>
    /\ screen = <<>>
    /\ last = [op |-> "new", result |-> "Ok", value |-> None, note |-> "new",
               redo_before |-> 0, written |-> None, invoked |-> FALSE]
    /\ hist_undo = <<>>
    /\ hist_redo = <<>>

\* DispatchEditor::SetSelectionMode: Editor::set_selection_mode selects the
\* current element under the mode
SetSelectionMode ==
    /\ Alive
    /\ \E selection_mode \in SelectionModes :
        /\ selection_set' = Generate(buffer.rope, selection_set, selection_mode, "Current")
        /\ last' = Last("set_selection_mode", "Ok", None, "select")
    /\ UNCHANGED <<buffer, mode, clipboard, jumps, validity, screen, hist_undo, hist_redo>>

\* DispatchEditor::MoveSelection: Editor::handle_movement moves the
\* selections in Normal mode
HandleMovement ==
    /\ Alive
    /\ mode = "Normal"
    /\ \E movement \in {"Next", "Previous"} :
        /\ selection_set' = Generate(buffer.rope, selection_set, selection_set.mode, movement)
        /\ last' = Last("move_selection", "Ok", None, "select")
    /\ UNCHANGED <<buffer, mode, clipboard, jumps, validity, screen, hist_undo, hist_redo>>

\* A movement in MultiCursor mode: Editor::add_cursor
AddCursor ==
    /\ Alive
    /\ Len(Selections(selection_set)) < MaxCursors
    /\ LET added == AddSelection(buffer.rope, selection_set, "Next")
       IN  /\ added # selection_set
           /\ selection_set' = added
    /\ last' = Last("add_cursor", "Ok", None, "select")
    /\ UNCHANGED <<buffer, mode, clipboard, jumps, validity, screen, hist_undo, hist_redo>>

\* Dispatch::SetClipboardContent sent by the application
SetClipboardContent ==
    /\ Alive
    /\ \E content \in ClipboardContents :
        /\ clipboard # Some(content)
        /\ clipboard' = Some(content)
        /\ last' = Last("set_clipboard_content", "Ok", content, "clipboard")
    /\ UNCHANGED <<buffer, selection_set, mode, jumps, validity, screen, hist_undo, hist_redo>>

\* What is left of a dispatch whose Buffer::slice panics
SlicePanics(op) ==
    /\ last' = Last(op, "Panic", None, "slice_out_of_range")
    /\ UNCHANGED <<buffer, selection_set, mode, clipboard, jumps, validity, screen, hist_undo, hist_redo>>

\* DispatchEditor::Kill: Editor::kill
Kill ==
    /\ Alive
    /\ IF \E range \in KillSlices(buffer.rope, selection_set) : ~InText(buffer.rope, range)
       THEN SlicePanics("kill")
       ELSE LET groups == KillGroups(buffer, selection_set)
                r == EditorApplyEditTransaction(buffer, selection_set, groups)
            IN  /\ Disjoint(groups)
                /\ Len(r.buffer.undo_patch) <= MaxKillHist
                /\ buffer' = r.buffer
                /\ selection_set' = r.value
                /\ last' = Last("kill", r.result, None, "kill")
                /\ UNCHANGED <<mode, clipboard, jumps, validity, screen, hist_undo, hist_redo>>

\* DispatchEditor::Cut: Editor::cut, which ends in Insert mode
Cut ==
    /\ Alive
    /\ IF \E i \in 1..Len(Selections(selection_set)) :
            ~InText(buffer.rope, RangeOf(Selections(selection_set)[i]))
       THEN SlicePanics("cut")
       ELSE LET groups == CutGroups(buffer, selection_set)
                r == EditorApplyEditTransaction(buffer, selection_set, groups)
            IN  /\ Disjoint(groups)
                /\ Len(r.buffer.undo_patch) <= MaxPasteHist
                /\ buffer' = r.buffer
                /\ selection_set' = IF r.result = "Panic" THEN selection_set
                                    ELSE InsertModeSelectionSet(r.value, "Start")
                /\ mode' = IF r.result = "Panic" THEN mode ELSE "Insert"
                /\ clipboard' = IF r.result = "Ok"
                                THEN CutClipboard(buffer, selection_set, clipboard)
                                ELSE clipboard
                /\ last' = Last("cut", r.result, None, "cut")
                /\ UNCHANGED <<jumps, validity, screen, hist_undo, hist_redo>>

\* DispatchEditor::Paste: Editor::paste
Paste ==
    /\ Alive
    /\ \E direction \in {"Start", "End"} :
        LET groups == PasteGroups(selection_set, direction, clipboard)
            r == EditorApplyEditTransaction(buffer, selection_set, groups)
        IN  /\ Disjoint(groups)
            /\ Len(r.buffer.rope) <= MaxPasteText
            /\ Len(r.buffer.undo_patch) <= MaxPasteHist
            /\ buffer' = r.buffer
            /\ selection_set' = r.value
            /\ last' = Last("paste", r.result, direction, "paste")
            /\ UNCHANGED <<mode, clipboard, jumps, validity, screen, hist_undo, hist_redo>>

\* The editor selects under a mode, moves, adds a cursor and kills
NextKill ==
    \/ SetSelectionMode
    \/ HandleMovement
    \/ AddCursor
    \/ Kill

InitKill == SetupEditor(KillContents)

SpecKill == InitKill /\ [][NextKill]_vars

\* The editor selects under a mode, moves, adds a cursor, cuts and pastes
NextPaste ==
    \/ SetSelectionMode
    \/ HandleMovement
    \/ AddCursor
    \/ SetClipboardContent
    \/ Cut
    \/ Paste

InitPaste == SetupEditor(PasteContents)

SpecPaste == InitPaste /\ [][NextPaste]_vars

-----------------------------------------------------------------------------
(* Position mapping (Buffer::char_to_byte, byte_to_char, char_to_position, *)
(* position_to_char), called on texts with line breaks and a char of two   *)
(* bytes.                                                                  *)

\* longest text (in chars) the position mapping is called on
MaxPositionText == 3

\* try_char_to_byte counting one byte for every char
TryCharToByteOfOneByteChars(rope, char_index) ==
    IF char_index > Len(rope) THEN None ELSE Some(char_index)

\* Rope::try_char_to_byte: the bytes of the chars before the index; no byte
\* index for a char index past len_chars
TryCharToByte(rope, char_index) ==
    IF char_index > Len(rope) THEN None
    ELSE Some(ByteLen(SubSeq(rope, 1, char_index)))

\* Rope::try_byte_to_char: the char the byte belongs to, len_chars for the
\* byte index len_bytes; no char index for a byte index past len_bytes
TryByteToChar(rope, byte_index) ==
    IF byte_index > ByteLen(rope) THEN None
    ELSE Some(CHOOSE k \in 0..Len(rope) :
                /\ ByteLen(SubSeq(rope, 1, k)) <= byte_index
                /\ \A j \in (k + 1)..Len(rope) : ByteLen(SubSeq(rope, 1, j)) > byte_index)

\* Buffer::try_position_to_char_index
TryPositionToCharIndex(b, position) ==
    LET index == TryLineToChar(b.rope, position.line)
    IN  IF index = None THEN None ELSE Some(index[1] + position.column)

\* Buffer::contains_position_range
ContainsPositionRange(b, range) ==
    LET end == TryPositionToCharIndex(b, range.end)
    IN  IF end = None THEN FALSE ELSE end[1] < Len(b.rope)

\* The texts of the buffer
RECURSIVE TextsOver(_, _)
TextsOver(chars, n) ==
    IF n = 0 THEN {<<>>}
    ELSE LET shorter == TextsOver(chars, n - 1)
         IN  shorter \cup {Append(text, char) : text \in shorter, char \in chars}

PositionTexts == TextsOver({"a", Wide, NL}, MaxPositionText)

\* A call of the position mapping and what it returned
Mapped(input, output) == [input |-> input, output |-> output]

\* A call that maps back, with the call before it
MappedBack(input, output) ==
    [input |-> input, output |-> output,
     prior |-> IF last.op \in {"char_to_byte", "char_to_position"}
               THEN [op |-> last.op, input |-> last.value.input, output |-> last.value.output]
               ELSE [op |-> last.op, input |-> None, output |-> None]]

Answer(output) == IF output = None THEN "Err" ELSE "Ok"

CharToByte ==
    /\ Alive
    /\ \E char_index \in 0..(Len(buffer.rope) + 1) :
        LET byte == TryCharToByte(buffer.rope, char_index)
        IN  last' = Last("char_to_byte", Answer(byte), Mapped(char_index, byte), "map")
    /\ UNCHANGED <<buffer, selection_set, mode, clipboard, jumps, validity, screen, hist_undo, hist_redo>>

ByteToChar ==
    /\ Alive
    /\ \E byte_index \in 0..(ByteLen(buffer.rope) + 1) :
        LET char_index == TryByteToChar(buffer.rope, byte_index)
        IN  last' = Last("byte_to_char", Answer(char_index),
                         MappedBack(byte_index, char_index), "map")
    /\ UNCHANGED <<buffer, selection_set, mode, clipboard, jumps, validity, screen, hist_undo, hist_redo>>

CharToPositionCall ==
    /\ Alive
    /\ \E char_index \in 0..(Len(buffer.rope) + 1) :
        LET position == CharToPosition(buffer, char_index)
        IN  last' = Last("char_to_position", Answer(position),
                         Mapped(char_index, position), "map")
    /\ UNCHANGED <<buffer, selection_set, mode, clipboard, jumps, validity, screen, hist_undo, hist_redo>>

PositionToCharCall ==
    /\ Alive
    /\ \E line \in 0..(LenLines(buffer.rope) + 1), column \in 0..(Len(buffer.rope) + 1) :
        LET position == [line |-> line, column |-> column]
            char_index == PositionToChar(buffer, position)
        IN  last' = Last("position_to_char", Answer(char_index),
                         MappedBack(position, char_index), "map")
    /\ UNCHANGED <<buffer, selection_set, mode, clipboard, jumps, validity, screen, hist_undo, hist_redo>>

ContainsPositionRangeCall ==
    /\ Alive
    /\ \E line \in 0..(LenLines(buffer.rope) + 1), column \in 0..(Len(buffer.rope) + 1) :
        LET position == [line |-> line, column |-> column]
            range == [start |-> position, end |-> position]
        IN  last' = Last("contains_position_range", "Ok",
                         Mapped(position, ContainsPositionRange(buffer, range)), "map")
    /\ UNCHANGED <<buffer, selection_set, mode, clipboard, jumps, validity, screen, hist_undo, hist_redo>>

NextPosition ==
    \/ CharToByte
    \/ ByteToChar
    \/ CharToPositionCall
    \/ PositionToCharCall
    \/ ContainsPositionRangeCall

InitPosition == Setup(PositionTexts, {None}, {"None"})

\* The caller of the position mapping of a buffer
SpecPosition == InitPosition /\ [][NextPosition]_vars

-----------------------------------------------------------------------------
(* The selection mode LineTrimmed (src/src/selection_mode/line_trimmed.rs) *)
(* on texts with blanks, line breaks and a char of two bytes.              *)

\* longest text (in chars) LineTrimmed iterates over
MaxLineText == 3

\* A ByteRange
ByteRange(start, end) == [start |-> start, end |-> end]

\* Buffer::get_line_by_line_index (Rope::get_line): the chars of a line with
\* its line break; the line after a final line break is empty
GetLineByLineIndex(b, line_index) ==
    IF line_index >= LenLines(b.rope) THEN None
    ELSE Some(SubSeq(b.rope, TryLineToChar(b.rope, line_index)[1] + 1,
                     TryLineToChar(b.rope, line_index + 1)[1]))

\* Buffer::line_to_byte (Rope::try_line_to_byte)
LineToByte(b, line_index) ==
    LET start == TryLineToChar(b.rope, line_index)
    IN  IF start = None THEN None ELSE TryCharToByte(b.rope, start[1])

\* str::ends_with('\n')
EndsWithNewline(text) == text # <<>> /\ text[Len(text)] = NL

\* chars().take_while(|c| c.is_whitespace()).count()
RECURSIVE LeadingWhitespaceCount(_)
LeadingWhitespaceCount(line) ==
    IF line = <<>> \/ Head(line) \notin Whitespace THEN 0
    ELSE 1 + LeadingWhitespaceCount(Tail(line))

\* trim_leading_spaces
TrimLeadingSpaces(byte_start, line) ==
    IF line = <<NL>> THEN byte_start
    ELSE byte_start + LeadingWhitespaceCount(line)

\* The range LineTrimmed::iter yields for a line
LineTrimmedRange(b, line_index) ==
    LET line == GetLineByLineIndex(b, line_index)[1]
        start == LineToByte(b, line_index)[1]
        len_bytes == ByteLen(line)
        end == start + (IF EndsWithNewline(line) THEN Max(len_bytes - 1, 0) ELSE len_bytes)
    IN  ByteRange(TrimLeadingSpaces(start, line), end)

\* LineTrimmed::iter taking every line Rope::len_lines counts
LineTrimmedIterOfEveryLine(b) ==
    [k \in 1..LenLines(b.rope) |-> LineTrimmedRange(b, k - 1)]

\* LineTrimmed::iter
LineTrimmedIter(b) ==
    LET len_lines == LenLines(b.rope)
        taken == IF EndsWithNewline(b.rope) THEN Max(len_lines - 1, 0) ELSE len_lines
        lines == SelectSeq([k \in 1..taken |-> k - 1],
                           LAMBDA line_index :
                                /\ GetLineByLineIndex(b, line_index) # None
                                /\ LineToByte(b, line_index) # None)
    IN  [k \in 1..Len(lines) |-> LineTrimmedRange(b, lines[k])]

LineTexts == TextsOver({"a", " ", Wide, WideBlank, NL}, MaxLineText)

\* The selection mode of the editor iterates over the buffer
IterLineTrimmed ==
    /\ Alive
    /\ last.op # "line_trimmed"
    /\ last' = Last("line_trimmed", "Ok", LineTrimmedIter(buffer), "iter")
    /\ UNCHANGED <<buffer, selection_set, mode, clipboard, jumps, validity, screen, hist_undo, hist_redo>>

InitLineTrimmed == Setup(LineTexts, {None}, {"None"})

\* The caller of LineTrimmed::iter
SpecLineTrimmed == InitLineTrimmed /\ [][IterLineTrimmed]_vars

-----------------------------------------------------------------------------
(* The diagnostics of a buffer (Buffer::set_diagnostics, get_diagnostic,   *)
(* find_diagnostic) and the edits made while they are set.                 *)

\* most diagnostics in a list passed to set_diagnostics
MaxDiagnostics == 2
\* longest text (in chars) the guard of the edit lets the rope grow to
MaxDiagnosticText == 3
\* most patches the guard of the edit lets the undo stack grow to
MaxDiagnosticHist == 1

\* Diagnostic { range: Range<Position>, .. }
Diagnostic(start, end) == [range |-> [start |-> start, end |-> end]]

\* Ord of Position: by line, then by column
PositionLess(a, b) == a.line < b.line \/ (a.line = b.line /\ a.column < b.column)

\* Vec::sort_by(|a, b| a.range.start.cmp(&b.range.start)): a stable sort,
\* diagnostics with equal starts keep the order they came in
RECURSIVE SortByStart(_)
SortByStart(diagnostics) ==
    IF diagnostics = <<>> THEN <<>>
    ELSE LET m == CHOOSE i \in 1..Len(diagnostics) :
                    /\ \A j \in 1..Len(diagnostics) :
                            ~PositionLess(diagnostics[j].range.start, diagnostics[i].range.start)
                    /\ \A j \in 1..(i - 1) :
                            PositionLess(diagnostics[i].range.start, diagnostics[j].range.start)
         IN  <<diagnostics[m]>>
                \o SortByStart([k \in 1..(Len(diagnostics) - 1) |->
                                    IF k < m THEN diagnostics[k] ELSE diagnostics[k + 1]])

\* Buffer::set_diagnostics
BufSetDiagnostics(b, diagnostics) == [b EXCEPT !.diagnostics = SortByStart(diagnostics)]

\* start..end of a diagnostic in char indices, none when a position has no
\* char index (to_char_index(self).ok()?)
DiagnosticCharRange(b, diagnostic) ==
    LET start == PositionToChar(b, diagnostic.range.start)
        end == PositionToChar(b, diagnostic.range.end)
    IN  IF start = None \/ end = None THEN None
        ELSE Some(CharIndexRange(start[1], end[1]))

\* Iterator::find_map: the first value that is not None
RECURSIVE FindMap(_)
FindMap(options) ==
    IF options = <<>> THEN None
    ELSE IF Head(options) # None THEN Head(options)
    ELSE FindMap(Tail(options))

\* find_previous(iter, |_, _| true, break_predicate): the item before the
\* first item that breaks, the last item when none breaks
FindPrevious(items, breaks) ==
    LET stop == IF \E i \in 1..Len(items) : breaks[i]
                THEN CHOOSE i \in 1..Len(items) : breaks[i] /\ \A j \in 1..(i - 1) : ~breaks[j]
                ELSE Len(items) + 1
    IN  IF stop = 1 THEN None ELSE Some(items[stop - 1])

\* Buffer::get_diagnostic
BufGetDiagnostic(b, current_range, direction) ==
    LET current_positional_range ==
            [start |-> CharToPosition(b, current_range.start)[1],
             end |-> CharToPosition(b, current_range.end)[1]]
        ranges == [i \in 1..Len(b.diagnostics) |-> DiagnosticCharRange(b, b.diagnostics[i])]
    IN  CASE direction = "Current" ->
                FindMap([i \in 1..Len(ranges) |->
                    IF ranges[i] # None /\ ranges[i][1].start >= current_range.start
                    THEN ranges[i] ELSE None])
          [] direction = "Forward" ->
                FindMap([i \in 1..Len(ranges) |->
                    IF /\ ranges[i] # None
                       /\ \/ ranges[i][1].start > current_range.start
                          \/ /\ ranges[i][1].start = current_range.start
                             /\ ranges[i][1].end > current_range.end
                    THEN ranges[i] ELSE None])
          [] direction = "Backward" ->
                LET item == FindPrevious(b.diagnostics,
                                [i \in 1..Len(b.diagnostics) |->
                                    b.diagnostics[i].range = current_positional_range])
                IN  IF item = None THEN None ELSE DiagnosticCharRange(b, item[1])

\* Buffer::find_diagnostic
BufFindDiagnostic(b, range) ==
    FindMap([i \in 1..Len(b.diagnostics) |->
        IF DiagnosticCharRange(b, b.diagnostics[i]) = Some(range)
        THEN Some(b.diagnostics[i]) ELSE None])

\* The positions a language server reports diagnostics at
DiagnosticPositions == {[line |-> l, column |-> c] : l \in 0..1, c \in 0..2}

\* The diagnostics a language server reports: on one line, not empty
Diagnostics ==
    {Diagnostic(start, end) : start, end \in DiagnosticPositions} \cap
    {d \in [range : [start : DiagnosticPositions, end : DiagnosticPositions]] :
        d.range.start.line = d.range.end.line /\ d.range.start.column < d.range.end.column}

\* The lists of at most n diagnostics
RECURSIVE DiagnosticLists(_)
DiagnosticLists(n) ==
    IF n = 0 THEN {<<>>}
    ELSE LET shorter == DiagnosticLists(n - 1)
         IN  shorter \cup {Append(list, d) : list \in shorter, d \in Diagnostics}

DiagnosticTexts == {<<"a", "a">>, <<"a", NL, "a">>}

\* The char ranges of a text
RangesIn(rope) ==
    {CharIndexRange(start, end) : start, end \in 0..Len(rope)} \cap
    {r \in [start : 0..Len(rope), end : 0..Len(rope)] : r.start <= r.end}

\* A call of get_diagnostic and what it returned, with the call before it
\* when it goes back from where that call went forward to
Asked(current_range, direction, output) ==
    [input |-> current_range, direction |-> direction, output |-> output,
     prior |-> IF /\ direction = "Backward" /\ last.op = "get_diagnostic"
                  /\ last.value.direction = "Forward"
                  /\ last.value.output = Some(current_range)
               THEN Some(last.value.input) ELSE None]

\* Editor::set_diagnostics: the list of a language server replaces the
\* diagnostics of the buffer
SetDiagnostics ==
    /\ Alive
    /\ \E diagnostics \in DiagnosticLists(MaxDiagnostics) :
        /\ buffer' = BufSetDiagnostics(buffer, diagnostics)
        /\ buffer' # buffer
        /\ last' = Last("set_diagnostics", "Ok", diagnostics, "diagnostics")
    /\ UNCHANGED <<selection_set, mode, clipboard, jumps, validity, screen, hist_undo, hist_redo>>

\* Buffer::get_diagnostic from a range of the text
GetDiagnostic ==
    /\ Alive
    /\ buffer.diagnostics # <<>>
    /\ \E current_range \in RangesIn(buffer.rope), direction \in {"Current", "Forward", "Backward"} :
        LET output == BufGetDiagnostic(buffer, current_range, direction)
        IN  last' = Last("get_diagnostic", "Ok", Asked(current_range, direction, output),
                         "diagnostics")
    /\ UNCHANGED <<buffer, selection_set, mode, clipboard, jumps, validity, screen, hist_undo, hist_redo>>

\* Buffer::apply_edit_transaction with one edit, while diagnostics are set
EditUnderDiagnostics ==
    /\ Alive
    /\ buffer.diagnostics # <<>>
    /\ \E start \in 0..Len(buffer.rope), len \in 0..1, new \in {<<>>, <<"a">>} :
        LET edit == Edit(start, start + len, new)
            r == BufApplyEditTransaction(buffer, <<edit>>, selection_set)
        IN  /\ EditInRange(buffer.rope, edit)
            /\ r.buffer.rope # buffer.rope
            /\ Len(r.buffer.rope) <= MaxDiagnosticText
            /\ Len(r.buffer.undo_patch) <= MaxDiagnosticHist
            /\ buffer' = r.buffer
            /\ last' = Last("apply_edit_transaction", r.result, edit, "diagnostics")
    /\ UNCHANGED <<selection_set, mode, clipboard, jumps, validity, screen, hist_undo, hist_redo>>

NextDiagnostics ==
    \/ SetDiagnostics
    \/ GetDiagnostic
    \/ EditUnderDiagnostics

InitDiagnostics == Setup(DiagnosticTexts, {None}, {"None"})

\* The caller of the diagnostics of a buffer
SpecDiagnostics == InitDiagnostics /\ [][NextDiagnostics]_vars

-----------------------------------------------------------------------------
(* Screen (src/src/screen.rs): the channel of Screen::run.  The event      *)
(* thread forwards the events of the terminal to the channel, the language *)
(* server sends its notifications to it, and the loop of Screen::run takes *)
(* one message at a time and handles it with the dispatches it produces.   *)

\* most messages sent to the channel
MaxMessages == 3
\* most dispatches an event produces
MaxDispatches == 2

\* The paths a language server publishes diagnostics for; the editor of the
\* screen is on the first one
MainPath == "main.rs"
Paths == {MainPath, "lib.rs"}

\* The lists of diagnostics a language server publishes
PublishedDiagnostics ==
    {<<Diagnostic([line |-> 0, column |-> 0], [line |-> 0, column |-> 1])>>,
     <<Diagnostic([line |-> 0, column |-> 1], [line |-> 0, column |-> 2])>>}

\* The dispatches the focused component answers an event with
Dispatches == {"SetSearch", "RequestHover"}

RECURSIVE DispatchLists(_)
DispatchLists(n) ==
    IF n = 0 THEN {<<>>}
    ELSE LET shorter == DispatchLists(n - 1)
         IN  shorter \cup {Append(list, dispatch) : list \in shorter, dispatch \in Dispatches}

\* ScreenMessage::Event and ScreenMessage::LspNotification(PublishDiagnostics),
\* numbered in the order they were made
EventMessage(id, key) ==
    [id |-> id, kind |-> "Event", key |-> key, path |-> None, diagnostics |-> <<>>]
PublishDiagnosticsMessage(id, path, diagnostics) ==
    [id |-> id, kind |-> "PublishDiagnostics", key |-> None, path |-> Some(path),
     diagnostics |-> diagnostics]

\* The keys of the terminal: ctrl+q closes the window of the screen, any
\* other key goes to the focused component
Keys == {"ctrl+q", "a"}

\* Screen::new: an empty channel and no diagnostics; the terminal has sent
\* no event
NewScreen ==
    [receiver |-> <<>>, event_receiver |-> <<>>, forwarding |-> None,
     handling |-> None, dispatches |-> <<>>, diagnostics |-> [path \in {} |-> <<>>],
     running |-> TRUE, made |-> 0, arrived |-> <<>>, taken |-> <<>>, done |-> <<>>]

\* HashMap::insert
MapInsert(map, key, value) ==
    [k \in (DOMAIN map) \cup {key} |-> IF k = key THEN value ELSE map[k]]

\* update_diagnostics keeping the diagnostics the path already has
ScreenUpdateDiagnosticsKeepingFirst(s, path, diagnostics) ==
    IF path \in DOMAIN s.diagnostics THEN s
    ELSE [s EXCEPT !.diagnostics = MapInsert(@, path, diagnostics)]

\* Screen::update_diagnostics, on the fields of the screen
ScreenUpdateDiagnostics(s, path, diagnostics) ==
    [s EXCEPT !.diagnostics = MapInsert(@, path, diagnostics)]

\* Screen::update_component_diagnotics: the editor whose buffer has the
\* path takes the diagnostics
UpdateComponentDiagnostics(b, path, diagnostics) ==
    IF b.path = Some(path) THEN BufSetDiagnostics(b, diagnostics) ELSE b

\* The terminal sends an event to the event thread
TerminalEvent ==
    /\ Alive
    /\ screen.made < MaxMessages
    /\ \E key \in Keys :
        screen' = [screen EXCEPT !.made = @ + 1,
                                 !.event_receiver = Append(@, EventMessage(screen.made + 1, key))]
    /\ last' = Last("terminal_event", "Ok", screen.made + 1, "screen")
    /\ UNCHANGED <<buffer, selection_set, mode, clipboard, jumps, validity, hist_undo, hist_redo>>

\* The event thread takes an event: event_receiver.recv()
EventThreadRecv ==
    /\ Alive
    /\ screen.forwarding = None
    /\ screen.event_receiver # <<>>
    /\ screen' = [screen EXCEPT !.forwarding = Some(Head(screen.event_receiver)),
                                !.event_receiver = Tail(@)]
    /\ last' = Last("event_recv", "Ok", Head(screen.event_receiver).id, "screen")
    /\ UNCHANGED <<buffer, selection_set, mode, clipboard, jumps, validity, hist_undo, hist_redo>>

\* The event thread forwards the event: sender.send(ScreenMessage::Event(event))
EventThreadSend ==
    /\ Alive
    /\ screen.forwarding # None
    /\ screen' = [screen EXCEPT !.forwarding = None,
                                !.receiver = Append(@, screen.forwarding[1]),
                                !.arrived = Append(@, screen.forwarding[1])]
    /\ last' = Last("event_send", "Ok", screen.forwarding[1].id, "screen")
    /\ UNCHANGED <<buffer, selection_set, mode, clipboard, jumps, validity, hist_undo, hist_redo>>

\* The language server sends a notification through its clone of the sender
LspPublishDiagnostics ==
    /\ Alive
    /\ screen.made < MaxMessages
    /\ \E path \in Paths, diagnostics \in PublishedDiagnostics :
        LET message == PublishDiagnosticsMessage(screen.made + 1, path, diagnostics)
        IN  /\ screen' = [screen EXCEPT !.made = @ + 1,
                                        !.receiver = Append(@, message),
                                        !.arrived = Append(@, message)]
            /\ last' = Last("lsp_send", "Ok", message.id, "screen")
    /\ UNCHANGED <<buffer, selection_set, mode, clipboard, jumps, validity, hist_undo, hist_redo>>

\* The loop of Screen::run takes the next message: self.receiver.recv().
\* ctrl+q closes the last window and the loop ends; another event is handed
\* to the focused component, which answers with its dispatches; a
\* notification is handled by handle_lsp_notification
ScreenRecv ==
    /\ Alive
    /\ screen.running
    /\ screen.handling = None
    /\ screen.receiver # <<>>
    /\ LET message == Head(screen.receiver)
           taken == [screen EXCEPT !.receiver = Tail(@),
                                   !.handling = Some(message),
                                   !.taken = Append(@, message)]
       IN  IF message.kind = "Event" /\ message.key = "ctrl+q"
           THEN /\ screen' = [taken EXCEPT !.running = FALSE]
                /\ buffer' = buffer
           ELSE IF message.kind = "Event"
           THEN /\ \E dispatches \in DispatchLists(MaxDispatches) :
                        screen' = [taken EXCEPT !.dispatches = dispatches]
                /\ buffer' = buffer
           ELSE /\ screen' = ScreenUpdateDiagnostics(taken, message.path[1],
                                                     message.diagnostics)
                /\ buffer' = UpdateComponentDiagnostics(buffer, message.path[1],
                                                        message.diagnostics)
    /\ last' = Last("recv", "Ok", Head(screen.receiver).id, "screen")
    /\ UNCHANGED <<selection_set, mode, clipboard, jumps, validity, hist_undo, hist_redo>>

\* Screen::handle_dispatches: the next dispatch of the message in hand; an
\* error ends the loop over the dispatches
HandleDispatch ==
    /\ Alive
    /\ screen.handling # None
    /\ screen.dispatches # <<>>
    /\ \E result \in {"Ok", "Err"} :
        /\ screen' = [screen EXCEPT
                        !.dispatches = IF result = "Ok" THEN Tail(@) ELSE <<>>,
                        !.done = Append(@, [id |-> screen.handling[1].id,
                                            dispatch |-> Head(screen.dispatches)])]
        /\ last' = Last("handle_dispatch", result, Head(screen.dispatches), "screen")
    /\ UNCHANGED <<buffer, selection_set, mode, clipboard, jumps, validity, hist_undo, hist_redo>>

\* The end of an iteration of the loop: the message is handled, the screen
\* is rendered
ScreenRender ==
    /\ Alive
    /\ screen.running
    /\ screen.handling # None
    /\ screen.dispatches = <<>>
    /\ screen' = [screen EXCEPT !.handling = None,
                                !.done = Append(@, [id |-> screen.handling[1].id,
                                                    dispatch |-> "render"])]
    /\ last' = Last("render", "Ok", screen.handling[1].id, "screen")
    /\ UNCHANGED <<buffer, selection_set, mode, clipboard, jumps, validity, hist_undo, hist_redo>>

NextScreen ==
    \/ TerminalEvent
    \/ EventThreadRecv
    \/ EventThreadSend
    \/ LspPublishDiagnostics
    \/ ScreenRecv
    \/ HandleDispatch
    \/ ScreenRender

\* Screen::run after open_file: an editor on the buffer of the entry path
InitScreen ==
    /\ buffer = NewBuffer(<<"a", "a">>, Some(MainPath), "None")
    /\ selection_set = Cursor(0)
    /\ mode = "Normal"
    /\ clipboard = None
    /\ jumps = <<>>
    /\ validity = <<>>
    /\ screen = NewScreen
    /\ last = [op |-> "new", result |-> "Ok", value |-> None, note |-> "new",
               redo_before |-> 0, written |-> None, invoked |-> FALSE]
    /\ hist_undo = <<>>
    /\ hist_redo = <<>>

SpecScreen == InitScreen /\ [][NextScreen]_vars

-----------------------------------------------------------------------------
(* The session of Screen::run, one iteration of its loop at a time: the    *)
(* message taken from the channel is handled, a failure of the handler is  *)
(* reported, and the screen is rendered.  The focused component is an      *)
(* editor in Insert mode.                                                  *)

\* most edits of a session
MaxSessionHist == 2
\* most windows of the layout
MaxWindows == 2

\* The keys a session types into the focused editor: a char of one byte,
\* a char of two bytes, and backspace
SessionKeys == {"a", Wide, "backspace"}

\* The screen of a session: how Screen::run stands ("running", "quit" after
\* its loop broke, "panic" after a handler unwound the thread), the windows
\* of the layout, how the last failure was reported, and the diagnostics
NewSession(windows) ==
    [exit |-> "running", windows |-> windows, reported |-> None,
     diagnostics |-> [path \in {} |-> <<>>]]

\* Editor::handle_insert_mode: backspace, or the insertion of the char of
\* the key at the cursors
HandleInsertMode(b, set, key) ==
    IF key = "backspace" THEN EditorApplyEditTransaction(b, set, BackspaceGroups(set))
    ELSE EditorApplyEditTransaction(b, set, InsertGroups(set, <<key>>))

\* Screen::handle_dispatches_result: an error of the component, or of one
\* of its dispatches, is logged
HandleDispatchesResult(s, result, dispatched) ==
    IF result = "Ok" /\ dispatched = "Ok" THEN s
    ELSE [s EXCEPT !.reported = Some("log")]

\* The loop of Screen::run takes ScreenMessage::Event(Event::Key(key)):
\* handle_event hands the key to the focused component and the dispatches
\* it returns (DocumentDidChange, which the language server manager may fail
\* to send) to handle_dispatches_result; a panic of the component unwinds
\* the thread of the loop
SessionKeyEvent ==
    /\ Alive
    /\ screen.exit = "running"
    /\ Collapsed(selection_set)
    /\ \E key \in SessionKeys, dispatched \in {"Ok", "Err"} :
        \E r \in {HandleInsertMode(buffer, selection_set, key)} :
            /\ Len(r.buffer.rope) <= MaxText
            /\ Len(r.buffer.undo_patch) <= MaxSessionHist
            /\ buffer' = r.buffer
            /\ selection_set' = r.value
            /\ screen' = IF r.result = "Panic" THEN [screen EXCEPT !.exit = "panic"]
                         ELSE HandleDispatchesResult(screen, r.result, dispatched)
            /\ last' = Last("key_event", r.result, key,
                            IF r.result = "Ok" THEN dispatched ELSE "failed")
    /\ UNCHANGED <<mode, clipboard, jumps, validity, hist_undo, hist_redo>>

\* The loop takes Event::Key(ctrl+q): Screen::quit removes the current
\* component, and the loop breaks when no window is left; otherwise another
\* editor has the focus
SessionQuit ==
    /\ Alive
    /\ screen.exit = "running"
    /\ screen' = [screen EXCEPT !.windows = @ - 1,
                                !.exit = IF screen.windows = 1 THEN "quit" ELSE "running"]
    /\ buffer' = IF screen.windows = 1 THEN buffer ELSE NewBuffer(<<>>, Some("lib.rs"), "None")
    /\ selection_set' = IF screen.windows = 1 THEN selection_set ELSE Cursor(0)
    /\ last' = Last("key_event", "Ok", "ctrl+q", "quit")
    /\ UNCHANGED <<mode, clipboard, jumps, validity, hist_undo, hist_redo>>

\* The loop takes ScreenMessage::LspNotification(PublishDiagnostics):
\* handle_lsp_notification returns the error of a diagnostic or a uri that
\* cannot be converted, which Screen::run shows (show_info) and logs;
\* otherwise update_diagnostics takes the list
SessionNotification ==
    /\ Alive
    /\ screen.exit = "running"
    /\ \E path \in Paths, diagnostics \in PublishedDiagnostics, converted \in {"Ok", "Err"} :
        /\ screen' = IF converted = "Err" THEN [screen EXCEPT !.reported = Some("info")]
                     ELSE ScreenUpdateDiagnostics(screen, path, diagnostics)
        /\ buffer' = IF converted = "Err" THEN buffer
                     ELSE UpdateComponentDiagnostics(buffer, path, diagnostics)
        /\ last' = Last("lsp_notification", converted, path, "publish_diagnostics")
    /\ UNCHANGED <<selection_set, mode, clipboard, jumps, validity, hist_undo, hist_redo>>

NextSession ==
    \/ SessionKeyEvent
    \/ SessionQuit
    \/ SessionNotification

\* Screen::run after open_file, the focused editor in Insert mode
InitSession ==
    /\ buffer = NewBuffer(<<>>, Some(MainPath), "None")
    /\ selection_set = Cursor(0)
    /\ mode = "Insert"
    /\ clipboard = None
    /\ jumps = <<>>
    /\ validity = <<>>
    /\ \E windows \in 1..MaxWindows : screen = NewSession(windows)
    /\ last = [op |-> "new", result |-> "Ok", value |-> None, note |-> "new",
               redo_before |-> 0, written |-> None, invoked |-> FALSE]
    /\ hist_undo = <<>>
    /\ hist_redo = <<>>

SpecSession == InitSession /\ [][NextSession]_vars

-----------------------------------------------------------------------------
(* The files of the screen: Screen::open_file, Screen::go_to_location,     *)
(* Screen::quit and the diagnostics a language server publishes.  The      *)
(* layout of the screen is taken to be the list of its components with the *)
(* focused one: a component added is last and focused, the component       *)
(* removed is the focused one, and a file is found when a component of the *)
(* list shows it.                                                          *)

\* Most buffers the screen makes
MaxBuffers == 3

\* The lists of diagnostics published for the files: one diagnostic, and two
\* that are not in the order of their starts
WindowDiagnostics ==
    {<<Diagnostic([line |-> 0, column |-> 1], [line |-> 0, column |-> 2])>>,
     <<Diagnostic([line |-> 0, column |-> 1], [line |-> 0, column |-> 2]),
       Diagnostic([line |-> 0, column |-> 0], [line |-> 0, column |-> 1])>>}

\* The ranges of the locations gone to
LocationRanges == {[start |-> 0, end |-> 0], [start |-> 0, end |-> 1]}

\* The fields of Screen the files touch: the layout (components, focused),
\* buffers, diagnostics, and the paths lsp_manager.open_file was called
\* with; published keeps what was published last for each path
NewWindows ==
    [components |-> <<>>, focused |-> 0, buffers |-> <<>>,
     diagnostics |-> [path \in {} |-> <<>>], lsp_opened |-> <<>>,
     running |-> TRUE, published |-> [path \in {} |-> <<>>]]

\* SuggestiveEditor::from_buffer on the buffer of a file, with the default
\* selection of Editor::from_buffer
Component(b) == [buffer |-> b, selection |-> [start |-> 0, end |-> 0]]

\* The first component whose buffer has the path, 0 if none has
FindComponent(components, path) ==
    IF \E i \in 1..Len(components) : components[i].buffer.path = Some(path)
    THEN CHOOSE i \in 1..Len(components) :
            /\ components[i].buffer.path = Some(path)
            /\ \A j \in 1..(i - 1) : components[j].buffer.path # Some(path)
    ELSE 0

\* Layout::remove_current_component: the focused component leaves the list
\* and the last of the others is focused
LayoutRemoveCurrentComponent(s) ==
    LET rest == [k \in 1..(Len(s.components) - 1) |->
                    IF k < s.focused THEN s.components[k] ELSE s.components[k + 1]]
    IN  [s EXCEPT !.components = rest, !.focused = Len(rest)]

\* Screen::update_component_diagnotics: the first component whose buffer
\* has the path takes the diagnostics
UpdateDiagnosticsOfComponents(components, path, diagnostics) ==
    LET i == FindComponent(components, path)
    IN  IF i = 0 THEN components
        ELSE [components EXCEPT ![i].buffer = BufSetDiagnostics(@, diagnostics)]

\* open_file giving the new editor no diagnostics
ScreenOpenFileWithoutDiagnostics(s, path) ==
    LET i == FindComponent(s.components, path)
    IN  IF i # 0 THEN [s EXCEPT !.focused = i]
        ELSE [s EXCEPT !.buffers = Append(@, path),
                       !.components = Append(@, Component(NewBuffer(<<"a", "a">>, Some(path), "None"))),
                       !.focused = Len(s.components) + 1,
                       !.lsp_opened = Append(@, path)]

\* Screen::open_file(path, true): the editor the layout finds for the path,
\* or a new buffer in a new focused editor that takes the diagnostics kept
\* for the path, after which the language server is told of the file
ScreenOpenFile(s, path) ==
    LET i == FindComponent(s.components, path)
        added == Append(s.components, Component(NewBuffer(<<"a", "a">>, Some(path), "None")))
    IN  IF i # 0 THEN [s EXCEPT !.focused = i]
        ELSE [s EXCEPT !.buffers = Append(@, path),
                       !.components =
                            UpdateDiagnosticsOfComponents(added, path,
                                IF path \in DOMAIN s.diagnostics
                                THEN s.diagnostics[path] ELSE <<>>),
                       !.focused = Len(added),
                       !.lsp_opened = Append(@, path)]

\* Dispatch::OpenFile: Screen::open_file(path, true)
OpenFile ==
    /\ Alive
    /\ screen.running
    /\ \E path \in Paths :
        LET s == ScreenOpenFile(screen, path)
        IN  /\ Len(s.buffers) <= MaxBuffers
            /\ screen' = s
            /\ last' = Last("open_file", "Ok", path,
                            IF Len(s.buffers) > Len(screen.buffers) THEN "new" ELSE "found")
    /\ UNCHANGED <<buffer, selection_set, mode, clipboard, jumps, validity, hist_undo, hist_redo>>

\* Screen::go_to_location: open_file(path, true), then the editor selects
\* the range of the location
GoToLocation ==
    /\ Alive
    /\ screen.running
    /\ \E path \in Paths, range \in LocationRanges :
        LET s == ScreenOpenFile(screen, path)
        IN  /\ Len(s.buffers) <= MaxBuffers
            /\ screen' = [s EXCEPT !.components[s.focused].selection = range]
            /\ last' = Last("go_to_location", "Ok", path,
                            IF Len(s.buffers) > Len(screen.buffers) THEN "new" ELSE "found")
    /\ UNCHANGED <<buffer, selection_set, mode, clipboard, jumps, validity, hist_undo, hist_redo>>

\* Screen::handle_event on ctrl+q: Screen::quit removes the current
\* component, and the loop of the screen ends when no window is left
CloseWindow ==
    /\ Alive
    /\ screen.running
    /\ screen.components # <<>>
    /\ LET s == LayoutRemoveCurrentComponent(screen)
       IN  screen' = [s EXCEPT !.running = s.components # <<>>]
    /\ last' = Last("quit", "Ok", screen.components[screen.focused].buffer.path[1], "close")
    /\ UNCHANGED <<buffer, selection_set, mode, clipboard, jumps, validity, hist_undo, hist_redo>>

\* Screen::handle_lsp_notification on PublishDiagnostics:
\* Screen::update_diagnostics
PublishDiagnostics ==
    /\ Alive
    /\ screen.running
    /\ \E path \in Paths, diagnostics \in WindowDiagnostics :
        /\ screen' = [screen EXCEPT
                        !.components = UpdateDiagnosticsOfComponents(@, path, diagnostics),
                        !.diagnostics = MapInsert(@, path, diagnostics),
                        !.published = MapInsert(@, path, diagnostics)]
        /\ last' = Last("publish_diagnostics", "Ok", path,
                        IF FindComponent(screen.components, path) = 0
                        THEN "not shown" ELSE "shown")
    /\ UNCHANGED <<buffer, selection_set, mode, clipboard, jumps, validity, hist_undo, hist_redo>>

NextWindows ==
    \/ OpenFile
    \/ GoToLocation
    \/ CloseWindow
    \/ PublishDiagnostics

\* Screen::new
InitWindows ==
    /\ buffer = NewBuffer(<<>>, None, "None")
    /\ selection_set = Cursor(0)
    /\ mode = "Normal"
    /\ clipboard = None
    /\ jumps = <<>>
    /\ validity = <<>>
    /\ screen = NewWindows
    /\ last = [op |-> "new", result |-> "Ok", value |-> None, note |-> "new",
               redo_before |-> 0, written |-> None, invoked |-> FALSE]
    /\ hist_undo = <<>>
    /\ hist_redo = <<>>

SpecWindows == InitWindows /\ [][NextWindows]_vars

-----------------------------------------------------------------------------
(* The keymap legend (src/src/components/keymap_legend.rs): a component of *)
(* an editor in Insert mode that intercepts the keys of its keymaps.  A    *)
(* key string is kept as the sequence of its parts between "-".            *)

\* most keymaps of a legend
MaxKeymaps == 2

\* KeyEvent::new(code, modifiers)
KeyEvent(code, modifiers) == [code |-> code, modifiers |-> modifiers]

\* Token::parse_key_code, for "esc", "space" and the strings of one char
ParseKeyCode(s) ==
    IF s = "esc" THEN <<"Esc">>
    ELSE IF s = "space" THEN <<"Char", " ">>
    ELSE <<"Char", s>>

\* Token::parse_modifier, for the modifier "ctrl"
ParseModifier(s) == IF s = "ctrl" THEN "CONTROL" ELSE "NONE"

\* parse_key_event (Token::to_key_event): a modifier and a key when the
\* string has two parts, a key otherwise
ParseKeyEvent(key) ==
    IF Len(key) = 2 THEN KeyEvent(ParseKeyCode(key[2]), ParseModifier(key[1]))
    ELSE KeyEvent(ParseKeyCode(key[1]), "NONE")

\* Keymap::new
Keymap(key, dispatch) == [key |-> key, dispatch |-> dispatch, event |-> ParseKeyEvent(key)]

\* The key strings and the dispatches of the keymaps of a legend
LegendKeyStrings == {<<"s">>, <<"ctrl", "s">>, <<"space">>, <<" ">>, <<"esc">>}
LegendDispatches == {"Spongebob", "Null"}

\* KeymapLegendConfig with a single section: the lists of keymaps
RECURSIVE KeymapLists(_)
KeymapLists(n) ==
    IF n = 0 THEN {<<>>}
    ELSE LET shorter == KeymapLists(n - 1)
         IN  shorter \cup {Append(list, Keymap(key, dispatch)) :
                            list \in shorter, key \in LegendKeyStrings,
                            dispatch \in LegendDispatches}

\* The key events of the terminal: those of the key strings and the key "x"
LegendKeyEvents == {ParseKeyEvent(key) : key \in LegendKeyStrings \cup {<<"x">>}}

\* str::len of a key string of the model
KeyStringLen(key) ==
    IF Len(key) = 2 THEN 6 ELSE IF key[1] = "space" THEN 5 ELSE IF key[1] = "esc" THEN 3 ELSE 1

\* Keymaps::display: the keymaps in rows of column_count columns, a column
\* being as wide as the widest key, the arrow (3), the description (1 in
\* the model) and a gap (6); a row is kept as the keys of its keymaps
Display(keymaps, width) ==
    LET RECURSIVE MaxKeyWidth(_)
        MaxKeyWidth(list) ==
            IF list = <<>> THEN 0
            ELSE Max(KeyStringLen(Head(list).key), MaxKeyWidth(Tail(list)))
        RECURSIVE Rows(_, _)
        Rows(list, column_count) ==
            IF Len(list) <= column_count
            THEN [i \in 1..Len(list) |-> list[i].key]
            ELSE [i \in 1..column_count |-> list[i].key] \o <<NL>>
                    \o Rows(SubSeq(list, column_count + 1, Len(list)), column_count)
    IN  Rows(keymaps, Max(width \div (MaxKeyWidth(keymaps) + 3 + 1 + 6), 1))

\* The widths of the rectangle of a legend
LegendWidths == {0, 13, 26}

\* Dispatch::CloseCurrentWindow { change_focused_to: Some(owner_id) }
CloseCurrentWindow(owner_id) == [close_current_window |-> owner_id]

\* The dispatches of the last keymap whose event is the key
InterceptedDispatchesOfLast(config, event) ==
    IF \E i \in 1..Len(config.keymaps) : config.keymaps[i].event = event
    THEN <<CloseCurrentWindow(config.owner_id),
           config.keymaps[CHOOSE i \in 1..Len(config.keymaps) :
                            /\ config.keymaps[i].event = event
                            /\ \A j \in (i + 1)..Len(config.keymaps) :
                                    config.keymaps[j].event # event].dispatch>>
    ELSE <<>>

\* KeymapLegend::handle_key_event in Insert mode, for a key other than esc:
\* config.keymaps().iter().find(..) takes the first keymap whose event is
\* the key
InterceptedDispatches(config, event) ==
    IF \E i \in 1..Len(config.keymaps) : config.keymaps[i].event = event
    THEN <<CloseCurrentWindow(config.owner_id),
           config.keymaps[CHOOSE i \in 1..Len(config.keymaps) :
                            /\ config.keymaps[i].event = event
                            /\ \A j \in 1..(i - 1) :
                                    config.keymaps[j].event # event].dispatch>>
    ELSE <<>>

\* Component::set_rectangle of the legend: KeymapLegend::refresh sets the
\* content the config displays at the width of the rectangle
LegendSetRectangle ==
    /\ Alive
    /\ \E width \in LegendWidths :
        /\ buffer' = BufUpdate(buffer, Display(screen.config.keymaps, width))
        /\ last' = Last("set_rectangle", "Ok", width, "refresh")
    /\ UNCHANGED <<selection_set, mode, clipboard, jumps, validity, screen, hist_undo, hist_redo>>

\* KeymapLegend::handle_key_event: in Insert mode esc enters Normal mode
\* and any other key is looked up in the keymaps; in Normal mode esc closes
\* the window (the other keys of Normal mode go to the editor).  The call
\* is recorded with the key, the dispatches returned, and the mode and the
\* content before it
LegendHandleKeyEvent ==
    /\ Alive
    /\ \E event \in LegendKeyEvents :
        /\ mode = "Insert" \/ event = ParseKeyEvent(<<"esc">>)
        /\ mode' = IF mode = "Insert" /\ event = ParseKeyEvent(<<"esc">>) THEN "Normal"
                   ELSE mode
        /\ \E dispatches \in
                {IF mode = "Insert"
                 THEN IF event = ParseKeyEvent(<<"esc">>) THEN <<>>
                      ELSE InterceptedDispatches(screen.config, event)
                 ELSE <<CloseCurrentWindow(screen.config.owner_id)>>} :
            last' = Last("handle_key_event", "Ok",
                         [event |-> event, dispatches |-> dispatches, mode |-> mode,
                          content |-> buffer.rope],
                         IF dispatches = <<>> THEN "none" ELSE "dispatched")
    /\ UNCHANGED <<buffer, selection_set, clipboard, jumps, validity, screen, hist_undo, hist_redo>>

NextLegend ==
    \/ LegendSetRectangle
    \/ LegendHandleKeyEvent

\* KeymapLegend::new: an editor on the empty text (Editor::from_text) that
\* has entered Insert mode, and the config
InitLegend ==
    /\ buffer = NewBuffer(<<>>, None, "None")
    /\ selection_set = Cursor(0)
    /\ mode = "Insert"
    /\ clipboard = None
    /\ jumps = <<>>
    /\ validity = <<>>
    /\ \E keymaps \in KeymapLists(MaxKeymaps) :
            screen = [config |-> [keymaps |-> keymaps, owner_id |-> 1]]
    /\ last = [op |-> "new", result |-> "Ok", value |-> None, note |-> "new",
               redo_before |-> 0, written |-> None, invoked |-> FALSE]
    /\ hist_undo = <<>>
    /\ hist_redo = <<>>

SpecLegend == InitLegend /\ [][NextLegend]_vars

-----------------------------------------------------------------------------
(* Jump mode: Editor::show_jumps labels the elements of the selection mode *)
(* and Editor::handle_jump_mode narrows them by the keys typed.            *)

\* The number of jump characters the model keeps of the alphabet
JumpAlphabetSize == 2

\* Editor::jump_characters: ('a'..='z') chain ('A'..='Z') chain ('0'..='9'),
\* cut to its first JumpAlphabetSize characters
JumpCharacters == SubSeq(<<"a", "b", "c", "d">>, 1, JumpAlphabetSize)

\* Iterator::cycle over the jump characters: the character at index i (from 1)
CycledJumpCharacter(i) == JumpCharacters[((i - 1) % Len(JumpCharacters)) + 1]

\* struct Jump { character, selection }
Jump(character, selection) == [character |-> character, selection |-> selection]

\* The ranges of a set in the order of their starts
RECURSIVE RangesInOrder(_)
RangesInOrder(ranges) ==
    IF ranges = {} THEN <<>>
    ELSE <<FirstOf(ranges)>> \o RangesInOrder(ranges \ {FirstOf(ranges)})

\* SelectionMode::jumps: every element of the mode labelled with its first
\* character, with the jump characters in turn when all first characters
\* are the same
SelectionModeJumps(rope, selection_mode, chars) ==
    LET ranges == RangesInOrder(ModeIter(rope, selection_mode))
        first == [i \in 1..Len(ranges) |-> rope[ranges[i].start + 1]]
        same == \A i, j \in 1..Len(ranges) : first[i] = first[j]
    IN  [i \in 1..Len(ranges) |->
            Jump(IF same THEN chars[((i - 1) % Len(chars)) + 1] ELSE first[i],
                 CopiedSelection(ranges[i].start, ranges[i].end, None))]

\* The jumps whose character is the typed one, in their order
RECURSIVE MatchingJumps(_, _)
MatchingJumps(candidates, c) ==
    IF candidates = <<>> THEN <<>>
    ELSE (IF Head(candidates).character = c THEN <<Head(candidates)>> ELSE <<>>)
            \o MatchingJumps(Tail(candidates), c)

\* the matching jumps kept with the characters they had
RelabelKeepingCharacters(matching_jumps) == matching_jumps

\* handle_jump_mode, several matches: the matching jumps zipped with the
\* cycled jump characters
Relabel(matching_jumps) ==
    [i \in 1..Len(matching_jumps) |->
        Jump(CycledJumpCharacter(i), matching_jumps[i].selection)]

\* SelectionSet::generate under Movement::Jump(range): every selection takes
\* the range
GenerateJump(rope, set, range) ==
    LET Move(selection) == [selection EXCEPT !.start = range.start, !.end = range.end]
    IN  [set EXCEPT !.primary = Move(@),
                    !.secondary = [i \in 1..Len(@) |-> Move(@[i])]]

\* Editor::handle_movement on Movement::Jump(range): the selection moves in
\* Normal mode only; the modes that edit the text are not entered here
HandleMovementJump(rope, set, editor_mode, range) ==
    IF editor_mode = "Normal" THEN GenerateJump(rope, set, range) ELSE set

\* The keys typed in jump mode; "esc" and "enter" are not KeyCode::Char
JumpKeys == {"esc", "enter", "a", "b", ","}
IsCharKey(key) == key \notin {"esc", "enter"}

\* handle_jump_mode leaving the jumps shown when no candidate matches
HandleJumpModeKeepingJumps(rope, set, editor_mode, key, candidates) ==
    LET matching_jumps == MatchingJumps(candidates, key)
    IN  IF key = "esc"
        THEN [jumps |-> None, selection_set |-> set, note |-> "esc"]
        ELSE IF ~IsCharKey(key)
        THEN [jumps |-> None, selection_set |-> set, note |-> "not a char"]
        ELSE IF Len(matching_jumps) = 0
        THEN [jumps |-> Some(candidates), selection_set |-> set, note |-> "no match"]
        ELSE IF Len(matching_jumps) = 1
        THEN [jumps |-> None,
              selection_set |-> HandleMovementJump(rope, set, editor_mode,
                                    RangeOf(matching_jumps[1].selection)),
              note |-> "jump"]
        ELSE [jumps |-> Some(Relabel(matching_jumps)), selection_set |-> set,
              note |-> "relabel"]

\* Editor::handle_jump_mode on the jumps handle_key_event took: the jumps
\* and the selection set it leaves, and the branch it took
HandleJumpMode(rope, set, editor_mode, key, candidates) ==
    LET matching_jumps == MatchingJumps(candidates, key)
    IN  IF key = "esc"
        THEN [jumps |-> None, selection_set |-> set, note |-> "esc"]
        ELSE IF ~IsCharKey(key)
        THEN [jumps |-> None, selection_set |-> set, note |-> "not a char"]
        ELSE IF Len(matching_jumps) = 0
        THEN [jumps |-> None, selection_set |-> set, note |-> "no match"]
        ELSE IF Len(matching_jumps) = 1
        THEN [jumps |-> None,
              selection_set |-> HandleMovementJump(rope, set, editor_mode,
                                    RangeOf(matching_jumps[1].selection)),
              note |-> "jump"]
        ELSE [jumps |-> Some(Relabel(matching_jumps)), selection_set |-> set,
              note |-> "relabel"]

\* The texts an editor that jumps is created on
JumpContents ==
    {<<"a", ",", "a", ",", "a">>, <<"a", "a", "a", "a">>, <<"a", " ", "a", "a">>}

\* DispatchEditor::ShowJumps: Editor::show_jumps
ShowJumps ==
    /\ Alive
    /\ jumps' = Some(SelectionModeJumps(buffer.rope, selection_set.mode, JumpCharacters))
    /\ jumps' # jumps
    /\ last' = Last("show_jumps", "Ok", None, "jump")
    /\ UNCHANGED <<buffer, selection_set, mode, clipboard, validity, screen, hist_undo, hist_redo>>

\* Editor::handle_key_event while jumps are shown: the jumps are taken and
\* handle_jump_mode decides what is left of them
HandleJumpKey ==
    /\ Alive
    /\ jumps # None
    /\ \E key \in JumpKeys :
        LET r == HandleJumpMode(buffer.rope, selection_set, mode, key, jumps[1])
        IN  /\ jumps' = r.jumps
            /\ selection_set' = r.selection_set
            /\ last' = Last("jump_key", "Ok",
                            [key |-> key, jumps |-> jumps[1],
                             matching_jumps |-> MatchingJumps(jumps[1], key)],
                            r.note)
    /\ UNCHANGED <<buffer, mode, clipboard, validity, screen, hist_undo, hist_redo>>

NextJump ==
    \/ SetSelectionMode
    \/ HandleMovement
    \/ EnterInsertMode
    \/ EnterNormalMode
    \/ ShowJumps
    \/ HandleJumpKey

InitJump == SetupEditor(JumpContents)

SpecJump == InitJump /\ [][NextJump]_vars

\* The number of cuts made while jumps are shown
MaxJumpCuts == 1

\* Editor::handle_key_event with the universal key ctrl+x while jumps are
\* shown: handle_universal_key answers the key with Editor::cut before the
\* jumps are taken, so the jumps stay as they are
HandleUniversalKey ==
    /\ Alive
    /\ jumps # None
    /\ Len(buffer.undo_patch) < MaxJumpCuts
    /\ Cut

NextJumpKeys ==
    \/ SetSelectionMode
    \/ HandleMovement
    \/ EnterInsertMode
    \/ EnterNormalMode
    \/ ShowJumps
    \/ HandleJumpKey
    \/ HandleUniversalKey

SpecJumpKeys == InitJump /\ [][NextJumpKeys]_vars

-----------------------------------------------------------------------------
(* The syntax tree of a text with parentheses, as far as Exchange and      *)
(* Raise look at it (Buffer::get_current_node, has_syntax_error_at), and   *)
(* the movement Parent.  A text is a list of items separated by ","; an    *)
(* item is a run of letters (kind identifier) or a group "(" list ")"      *)
(* (kind group, its content being a node of kind list); the root has the   *)
(* kind source.  Every char of these texts is one byte long.               *)

\* tree_sitter::Node: its kind and its range
Node(kind, start, end) == [kind |-> kind, start |-> start, end |-> end]

\* The "(" less the ")" among the first i chars
Depth(rope, i) ==
    Cardinality({j \in 1..i : rope[j] = "("}) - Cardinality({j \in 1..i : rope[j] = ")"})

\* The text parses without an ERROR node: every ")" closes a "(" and
\* nothing is left open or empty
WellFormed(text) ==
    /\ \A i \in 1..Len(text) : Depth(text, i) >= 0
    /\ Depth(text, Len(text)) = 0
    /\ \A i \in 1..(Len(text) - 1) : ~(text[i] = "(" /\ text[i + 1] = ")")

\* The groups: a "(" with the ")" that closes it
GroupNodes(rope) ==
    {n \in [kind : {"group"}, start : 0..Len(rope), end : 0..Len(rope)] :
        /\ n.start + 1 < n.end
        /\ rope[n.start + 1] = "("
        /\ rope[n.end] = ")"
        /\ Depth(rope, n.end) = Depth(rope, n.start)
        /\ \A k \in (n.start + 1)..(n.end - 1) : Depth(rope, k) > Depth(rope, n.start)}

\* The nodes of the tree of a text
TreeNodes(rope) ==
    {Node("source", 0, Len(rope))}
        \cup GroupNodes(rope)
        \cup {Node("list", g.start + 1, g.end - 1) :
                g \in {n \in GroupNodes(rope) : n.end - n.start > 2}}
        \cup {Node("identifier", t.start, t.end) : t \in Tokens(rope)}

\* Of two nodes with the same range, which one holds the other
KindRank(kind) ==
    CASE kind = "source" -> 4
      [] kind = "list" -> 3
      [] kind = "group" -> 2
      [] OTHER -> 1

\* Node p is an ancestor of node n
IsAncestor(p, n) ==
    /\ p # n
    /\ p.start <= n.start
    /\ n.end <= p.end
    /\ (p.start = n.start /\ p.end = n.end) => KindRank(p.kind) > KindRank(n.kind)

\* Node::parent: None for the root
NodeParent(rope, n) ==
    LET Closest(ancestors) ==
            IF ancestors = {} THEN None
            ELSE Some(CHOOSE p \in ancestors : \A q \in ancestors \ {p} : IsAncestor(q, p))
    IN  CHOOSE parent \in
            {Closest(ancestors) :
                ancestors \in {{p \in TreeNodes(rope) : IsAncestor(p, n)}}} : TRUE

\* Node::descendant_for_byte_range: the descent from the root into the
\* child that starts at or before the start of the range, reaches its end
\* and ends after its start; it stops at the smallest such node, also for
\* a range that ends before it starts
DescendantForRange(rope, start, end) ==
    LET Smallest(spanning) ==
            CHOOSE n \in spanning : \A q \in spanning \ {n} : IsAncestor(q, n)
    IN  CHOOSE node \in
            {Smallest(spanning) :
                spanning \in {{m \in TreeNodes(rope) :
                                \/ m.kind = "source"
                                \/ m.start <= start /\ end <= m.end /\ start < m.end}}} : TRUE

\* Buffer::get_current_node: the node of the range, then the most ancestral
\* node that has the range of that node; the loop that climbs returns from
\* inside when a parent has another range, and the node it started from
\* when it runs out of parents
GetCurrentNode(b, range) ==
    LET MostAncestral(same) == CHOOSE n \in same : \A q \in same \ {n} : IsAncestor(n, q)
        Returned(node, result) == IF NodeParent(b.tree, result) = None THEN node ELSE result
        Climb(node) ==
            CHOOSE returned \in
                {Returned(node, result) :
                    result \in {MostAncestral({m \in TreeNodes(b.tree) :
                                                m.start = node.start /\ m.end = node.end})}} : TRUE
    IN  CHOOSE current_node \in
            {Climb(node) :
                node \in {DescendantForRange(b.tree, range.start, range.end)}} : TRUE

\* Buffer::has_syntax_error_at: Node::has_error of the node of the range
HasSyntaxErrorAt(b, range) ==
    LET start == IF range.start <= Len(b.rope) THEN range.start ELSE 0
        end == IF range.end <= Len(b.rope) THEN range.end ELSE 0
    IN  \E node \in {DescendantForRange(b.tree, start, end)} :
            ~WellFormed(Slice(b.tree, CharIndexRange(node.start, node.end)))

\* SelectionMode::is_node
IsNode(selection_mode) == selection_mode = "SyntaxTree"

\* Movement::Parent under a mode: the parent of the current node in
\* SyntaxTree mode, the range itself in the other modes and at the root
ApplyParent(b, range, selection_mode) ==
    IF ~IsNode(selection_mode) \/ ~InText(b.tree, range) THEN range
    ELSE LET Up(parent) ==
                IF parent = None THEN range
                ELSE CharIndexRange(parent[1].start, parent[1].end)
         IN  CHOOSE up \in
                {Up(parent) :
                    parent \in {NodeParent(b.tree, node) :
                                    node \in {GetCurrentNode(b, range)}}} : TRUE

\* Selection::get_selection_: the selection a movement leads to
GetSelection(b, selection, selection_mode, movement) ==
    CHOOSE moved \in
        {[selection EXCEPT !.start = range.start, !.end = range.end] :
            range \in {IF movement = "Parent"
                       THEN ApplyParent(b, RangeOf(selection), selection_mode)
                       ELSE ApplyMovement(b.rope, RangeOf(selection), selection_mode,
                                          movement)}} : TRUE

-----------------------------------------------------------------------------
(* Exchange and Raise (Editor::exchange, Editor::replace) and the loop of  *)
(* Editor::get_valid_selection they share.                                 *)

\* most patches the guards of Exchange and Raise let the undo stack grow to
MaxTransformHist == 2
\* most times the loop of get_valid_selection is followed through continue
MaxRetries == 2

\* What syntax_highlight::highlight may return to reparse_tree: nothing is
\* highlighted in a buffer without language
HighlightOutcomes(b) == IF b.language = "None" THEN {"Ok"} ELSE {"Ok", "Err"}

\* Buffer::apply_edit_transaction with the outcome of the highlighter:
\* reparse_tree()? hands its error on after the edits are made
BufApplyEditTransactionHighlighting(b, edits, current_selection_set, highlighted) ==
    LET r == BufApplyEditTransaction(b, edits, current_selection_set)
    IN  IF r.result = "Ok" /\ highlighted = "Err" THEN Outcome(r.buffer, "Err", None)
        ELSE r

\* get_edit_transaction of replace_faultlessly leaving the selection where
\* it was
ExchangeGroupsSelectingInPlace(b, current_selection, next_selection) ==
    LET text_at_current_selection == Slice(b.rope, RangeOf(current_selection))
        text_at_next_selection == Slice(b.rope, RangeOf(next_selection))
    IN  <<ActionGroup(Edit(current_selection.start, current_selection.end,
                           text_at_next_selection), <<>>),
          ActionGroup(Edit(next_selection.start, next_selection.end,
                           text_at_current_selection),
                      <<current_selection>>)>>

\* get_edit_transaction of replace_faultlessly: the text of the next
\* selection in the place of the current one, the text of the current
\* selection in the place of the next one, and the selection on it
ExchangeGroups(b, current_selection, next_selection) ==
    LET text_at_current_selection == Slice(b.rope, RangeOf(current_selection))
        text_at_next_selection == Slice(b.rope, RangeOf(next_selection))
    IN  <<ActionGroup(Edit(current_selection.start, current_selection.end,
                           text_at_next_selection), <<>>),
          ActionGroup(Edit(next_selection.start, next_selection.end,
                           text_at_current_selection),
                      <<[current_selection EXCEPT
                            !.start = next_selection.start,
                            !.end = next_selection.start + Len(text_at_current_selection)]>>)>>

\* get_edit_transaction of replace leaving the selection where it was
RaiseGroupsSelectingInPlace(b, current_selection, other_selection) ==
    LET start == Min(current_selection.start, other_selection.start)
        end == Max(current_selection.end, other_selection.end)
        new == Slice(b.rope, RangeOf(current_selection))
    IN  <<ActionGroup(Edit(start, end, new), <<current_selection>>)>>

\* get_edit_transaction of replace: the text of the current selection in the
\* place of the range that spans both selections, and the selection on it
RaiseGroups(b, current_selection, other_selection) ==
    LET start == Min(current_selection.start, other_selection.start)
        end == Max(current_selection.end, other_selection.end)
        new == Slice(b.rope, RangeOf(current_selection))
    IN  <<ActionGroup(Edit(start, end, new),
                      <<[current_selection EXCEPT !.start = start,
                                                  !.end = start + Len(new)]>>)>>

\* get_actual_edit_transaction as exchange and replace pass it
ActualGroups(transform, b, current_selection, next_selection) ==
    IF transform = "exchange" THEN ExchangeGroups(b, current_selection, next_selection)
    ELSE RaiseGroups(b, current_selection, next_selection)

\* EditTransaction::range: from the first edit to the end of the last one
TransactionRange(edit_transaction) ==
    LET edits == edit_transaction.edits
        starts == {edits[i].start : i \in 1..Len(edits)}
        ends == {Max(edits[i].end, edits[i].start + Len(edits[i].new)) : i \in 1..Len(edits)}
    IN  CharIndexRange(CHOOSE s \in starts : \A t \in starts : s <= t,
                       CHOOSE e \in ends : \A t \in ends : t <= e)

\* What one pass through the loop of get_valid_selection decides
Decision(step, groups, next_selection) ==
    [step |-> step, groups |-> groups, next_selection |-> next_selection]

\* The checks of get_valid_selection on the tentative buffer: none outside
\* the node modes; in a node mode the next selection is not blank, the node
\* of every selection of the transaction has the kind and the length of the
\* current node, and the range of the transaction has no syntax error
TransactionPasses(b, new_buffer, selection_mode, current_selection, next_selection, edit_transaction) ==
    LET next_nodes == {GetCurrentNode(new_buffer, RangeOf(edit_transaction.selects[i].selection)) :
                        i \in 1..Len(edit_transaction.selects)}
    IN  \/ ~IsNode(selection_mode)
        \/ /\ ~IsBlank(Slice(b.rope, RangeOf(next_selection)))
           /\ \A current_node \in {GetCurrentNode(b, RangeOf(current_selection))} :
                \A next_node \in next_nodes :
                    /\ current_node.kind = next_node.kind
                    /\ current_node.end - current_node.start = next_node.end - next_node.start
           /\ ~HasSyntaxErrorAt(new_buffer, TransactionRange(edit_transaction))

\* One pass through the loop of get_valid_selection: Err is an error handed
\* to the caller by ?, Continue the continue after the tentative transaction
\* failed on the copy of the buffer, Right and Left the two returns, Advance
\* the end of the body with a new next selection
ValidityIteration(b, set, current_selection, next_selection, selection_mode, movement, transform, highlighted) ==
    LET Decide(groups, edit_transaction, applied) ==
            IF applied.result = "Panic" THEN Decision("Panic", <<>>, next_selection)
            ELSE IF applied.result = "Err" THEN Decision("Continue", <<>>, next_selection)
            ELSE IF \E i \in 1..Len(edit_transaction.selects) :
                        ~InText(applied.buffer.rope,
                                RangeOf(edit_transaction.selects[i].selection))
            THEN Decision("Err", <<>>, next_selection)
            ELSE IF TransactionPasses(b, applied.buffer, selection_mode, current_selection,
                                      next_selection, edit_transaction)
            THEN Decision("Right", groups, next_selection)
            ELSE LET Moved(new_selection) ==
                        IF new_selection = next_selection
                        THEN Decision("Left", <<>>, next_selection)
                        ELSE Decision("Advance", <<>>, new_selection)
                 IN  CHOOSE moved \in
                        {Moved(new_selection) :
                            new_selection \in {GetSelection(b, next_selection, selection_mode,
                                                            movement)}} : TRUE
    IN  IF ~InText(b.rope, RangeOf(current_selection)) \/ ~InText(b.rope, RangeOf(next_selection))
        THEN Decision("Err", <<>>, next_selection)
        ELSE CHOOSE decision \in
                UNION {UNION {{Decide(groups, edit_transaction, applied) :
                                applied \in {BufApplyEditTransactionHighlighting(
                                                b, edit_transaction.edits, set, highlighted)}} :
                            edit_transaction \in {FromActionGroups(groups)}} :
                        groups \in {ActualGroups(transform, b, current_selection,
                                                 next_selection)}} : TRUE

\* The loop of get_valid_selection from a next selection on: Hang stands for
\* the loop that never returns, every pass ending in continue
RECURSIVE ValidSelectionLoop(_, _, _, _, _, _, _, _)
ValidSelectionLoop(b, set, current_selection, next_selection, selection_mode, movement, transform, highlighted) ==
    LET After(decision) ==
            IF decision.step = "Advance"
            THEN ValidSelectionLoop(b, set, current_selection, decision.next_selection,
                                    selection_mode, movement, transform, highlighted)
            ELSE IF decision.step = "Continue" THEN Decision("Hang", <<>>, next_selection)
            ELSE decision
    IN  CHOOSE result \in
            {After(decision) :
                decision \in {ValidityIteration(b, set, current_selection, next_selection,
                                                selection_mode, movement, transform,
                                                highlighted)}} : TRUE

\* Editor::get_valid_selection
GetValidSelection(b, set, current_selection, selection_mode, movement, transform, highlighted) ==
    LET Loop(next_selection) ==
            IF next_selection = current_selection
            THEN Decision("Left", <<>>, next_selection)
            ELSE ValidSelectionLoop(b, set, current_selection, next_selection,
                                    selection_mode, movement, transform, highlighted)
    IN  CHOOSE result \in
            {Loop(next_selection) :
                next_selection \in {GetSelection(b, current_selection, selection_mode,
                                                 movement)}} : TRUE

\* The groups the selections of a set add to the transaction of
\* replace_faultlessly and replace: those get_valid_selection found, none
\* for a selection it found nothing for; Panic and Hang when
\* get_valid_selection does not return for some selection
TransformDecision(b, set, selection_mode, movement, transform, highlighted) ==
    LET Merged(decisions) ==
            LET steps == {decisions[i].step : i \in 1..Len(decisions)}
            IN  Decision(IF "Panic" \in steps THEN "Panic"
                         ELSE IF "Hang" \in steps THEN "Hang" ELSE "Right",
                         Flatten([i \in 1..Len(decisions) |-> decisions[i].groups]),
                         None)
    IN  CHOOSE result \in
            {Merged(decisions) :
                decisions \in {[i \in 1..Len(Selections(set)) |->
                                  GetValidSelection(b, set, Selections(set)[i],
                                                    selection_mode, movement, transform,
                                                    highlighted)]}} : TRUE

\* Editor::replace_faultlessly and Editor::replace: get_valid_selection for
\* every selection, the transactions found merged (EditTransaction::merge)
\* and applied
Transform(b, set, found, highlighted) ==
    IF found.step \in {"Panic", "Hang"} THEN Outcome(b, found.step, set)
    ELSE LET Applied(r) ==
                IF r.result = "Ok" /\ highlighted = "Err" THEN Outcome(r.buffer, "Err", set)
                ELSE r
         IN  CHOOSE result \in
                {Applied(r) : r \in {EditorApplyEditTransaction(b, set, found.groups)}} : TRUE

\* Editor::get_selected_texts: the texts of the selections that lie in the
\* text (the others are flattened away), sorted by the start of their ranges
\* (Vec::sort_by is stable)
SelectedTexts(rope, set) ==
    LET RECURSIVE Sorted(_)
        Sorted(ranges) ==
            IF ranges = <<>> THEN <<>>
            ELSE LET m == CHOOSE i \in 1..Len(ranges) :
                            /\ \A j \in 1..Len(ranges) : ranges[i].start <= ranges[j].start
                            /\ \A j \in 1..(i - 1) : ranges[i].start < ranges[j].start
                 IN  <<ranges[m]>>
                        \o Sorted([k \in 1..(Len(ranges) - 1) |->
                                    IF k < m THEN ranges[k] ELSE ranges[k + 1]])
        Texts(sorted) == [i \in 1..Len(sorted) |-> Slice(rope, sorted[i])]
    IN  CHOOSE texts \in
            {Texts(Sorted(ranges)) :
                ranges \in {SelectSeq([i \in 1..Len(Selections(set)) |->
                                            RangeOf(Selections(set)[i])],
                                       LAMBDA range : InText(rope, range))}} : TRUE

\* The texts an editor that exchanges is created on
ExchangeContents == {<<"a", "a", ",", "a">>, <<"a", " ", ",">>}

\* The texts an editor that raises is created on
RaiseContents ==
    {<<"(", "a", ")", ",", "a">>,
     <<"(", "(", "a", ")", ",", "a", ")">>,
     <<"(", "a", ",", "a", ")">>,
     <<"(", "a", ",", "a", ")", ",", "(", "a", ",", "a", ")">>}

\* DispatchEditor::EnterExchangeMode: Editor::enter_exchange_mode
EnterExchangeMode ==
    /\ Alive
    /\ mode # "Exchange"
    /\ mode' = "Exchange"
    /\ last' = Last("enter_exchange_mode", "Ok", None, "mode")
    /\ UNCHANGED <<buffer, selection_set, clipboard, jumps, validity, screen, hist_undo, hist_redo>>

\* DispatchEditor::MoveSelection in Exchange mode: Editor::handle_movement
\* calls Editor::exchange.  The value keeps the text and the selected texts
\* the exchange started from and, for an exchange with the previous element
\* that follows an exchange with the next one that changed the text, what
\* that one started from.
Exchange ==
    /\ Alive
    /\ mode = "Exchange"
    /\ \E movement \in {"Next", "Previous"}, highlighted \in HighlightOutcomes(buffer) :
        \E found \in {TransformDecision(buffer, selection_set, selection_set.mode,
                                        movement, "exchange", highlighted)} :
        /\ Disjoint(found.groups)
        /\ \E r \in {Transform(buffer, selection_set, found, highlighted)} :
            /\ Len(r.buffer.undo_patch) <= MaxTransformHist
            /\ buffer' = r.buffer
            /\ selection_set' = r.value
            /\ last' = Last("exchange", r.result,
                            [movement |-> movement,
                             from |-> [rope |-> buffer.rope,
                                       texts |-> SelectedTexts(buffer.rope, selection_set)],
                             prior |-> IF /\ last.op = "exchange"
                                          /\ last.note = "changed"
                                          /\ last.value.movement = "Next"
                                          /\ movement = "Previous"
                                       THEN Some(last.value.from) ELSE None],
                            IF r.buffer.rope = buffer.rope THEN "unchanged" ELSE "changed")
    /\ UNCHANGED <<mode, clipboard, jumps, validity, screen, hist_undo, hist_redo>>

\* DispatchEditor::MoveSelection(Parent) in Normal mode
MoveToParent ==
    /\ Alive
    /\ mode = "Normal"
    /\ LET Move(selection) == GetSelection(buffer, selection, selection_set.mode, "Parent")
       IN  selection_set' = [selection_set EXCEPT
                                !.primary = Move(@),
                                !.secondary = [i \in 1..Len(@) |-> Move(@[i])]]
    /\ selection_set' # selection_set
    /\ last' = Last("move_selection", "Ok", None, "select")
    /\ UNCHANGED <<buffer, mode, clipboard, jumps, validity, screen, hist_undo, hist_redo>>

\* DispatchEditor::Raise: Editor::replace with Movement::Parent.  The value
\* keeps the buffer and the selections the raise started from.
Raise ==
    /\ Alive
    /\ \E highlighted \in HighlightOutcomes(buffer) :
        \E found \in {TransformDecision(buffer, selection_set, selection_set.mode,
                                        "Parent", "raise", highlighted)} :
        /\ Disjoint(found.groups)
        /\ \E r \in {Transform(buffer, selection_set, found, highlighted)} :
            /\ Len(r.buffer.undo_patch) <= MaxTransformHist
            /\ buffer' = r.buffer
            /\ selection_set' = r.value
            /\ last' = Last("raise", r.result,
                            [buffer |-> buffer, selection_set |-> selection_set],
                            IF r.buffer.rope = buffer.rope THEN "unchanged" ELSE "changed")
    /\ UNCHANGED <<mode, clipboard, jumps, validity, screen, hist_undo, hist_redo>>

\* The editor selects under a mode, moves, adds a cursor and exchanges
NextExchange ==
    \/ SetSelectionMode
    \/ HandleMovement
    \/ AddCursor
    \/ EnterExchangeMode
    \/ EnterNormalMode
    \/ Exchange

InitExchange == SetupEditor(ExchangeContents)

SpecExchange == InitExchange /\ [][NextExchange]_vars

-----------------------------------------------------------------------------
(* The modes of the editor and the Esc key: Editor::handle_key_event hands *)
(* the key to the jumps when they are shown and else to the handler of the *)
(* mode, and every handler but that of Normal mode is in editor.rs.        *)

\* The texts an editor that changes its mode is created on
ModeContents == {<<"a", ",">>, <<"a", NL>>}

\* DispatchEditor::EnterUndoTreeMode: Editor::enter_undo_tree_mode; the
\* dispatch it returns shows the undo tree
EnterUndoTreeMode ==
    /\ Alive
    /\ mode # "UndoTree"
    /\ mode' = "UndoTree"
    /\ last' = Last("enter_undo_tree_mode", "Ok", None, "mode")
    /\ UNCHANGED <<buffer, selection_set, clipboard, jumps, validity, screen, hist_undo, hist_redo>>

\* DispatchEditor::FindOneChar: Editor::enter_single_character_mode
FindOneChar ==
    /\ Alive
    /\ mode # "FindOneChar"
    /\ mode' = "FindOneChar"
    /\ last' = Last("find_one_char", "Ok", None, "mode")
    /\ UNCHANGED <<buffer, selection_set, clipboard, jumps, validity, screen, hist_undo, hist_redo>>

\* DispatchEditor::EnterMultiCursorMode: Editor::enter_multicursor_mode
EnterMultiCursorMode ==
    /\ Alive
    /\ mode # "MultiCursor"
    /\ mode' = "MultiCursor"
    /\ last' = Last("enter_multicursor_mode", "Ok", None, "mode")
    /\ UNCHANGED <<buffer, selection_set, clipboard, jumps, validity, screen, hist_undo, hist_redo>>

\* DispatchEditor::EnterReplaceMode: Editor::enter_replace_mode
EnterReplaceMode ==
    /\ Alive
    /\ mode # "Replace"
    /\ mode' = "Replace"
    /\ last' = Last("enter_replace_mode", "Ok", None, "mode")
    /\ UNCHANGED <<buffer, selection_set, clipboard, jumps, validity, screen, hist_undo, hist_redo>>

\* the handler of FindOneChar mode ignoring the Esc key as it ignores the
\* keys that are not a char
HandleEscInModeButFindOneChar(b, set, editor_mode) ==
    IF editor_mode = "FindOneChar"
    THEN [mode |-> editor_mode, selection_set |-> set]
    ELSE [mode |-> "Normal",
          selection_set |-> IF editor_mode = "Insert"
                            THEN NormalModeSelectionSet(b, set) ELSE set]

\* The Esc branch of handle_insert_mode, handle_multi_cursor_mode,
\* handle_find_one_char_mode, handle_exchange_mode, handle_undo_tree_mode
\* and handle_replace_mode: each calls Editor::enter_normal_mode, which
\* moves the cursors when the mode was Insert
HandleEscInMode(b, set, editor_mode) ==
    [mode |-> "Normal",
     selection_set |-> IF editor_mode = "Insert"
                       THEN NormalModeSelectionSet(b, set) ELSE set]

\* Editor::handle_key_event on the Esc key, which is no universal key: the
\* jumps, when shown, take the key; else the handler of the mode does.  The
\* handler of Normal mode is not part of editor.rs.
HandleEscKey ==
    /\ Alive
    /\ jumps # None \/ mode # "Normal"
    /\ IF jumps # None
       THEN LET r == HandleJumpMode(buffer.rope, selection_set, mode, "esc", jumps[1])
            IN  /\ jumps' = r.jumps
                /\ selection_set' = r.selection_set
                /\ mode' = mode
       ELSE LET r == HandleEscInMode(buffer, selection_set, mode)
            IN  /\ jumps' = jumps
                /\ selection_set' = r.selection_set
                /\ mode' = r.mode
    /\ last' = Last("key_event", "Ok", [key |-> "esc", mode |-> mode, jumps |-> jumps],
                    IF jumps # None THEN "jump" ELSE "mode")
    /\ UNCHANGED <<buffer, clipboard, validity, screen, hist_undo, hist_redo>>

NextModes ==
    \/ EnterInsertMode
    \/ Insert
    \/ EnterExchangeMode
    \/ EnterUndoTreeMode
    \/ FindOneChar
    \/ EnterMultiCursorMode
    \/ EnterReplaceMode
    \/ SetSelectionMode
    \/ ShowJumps
    \/ HandleEscKey

InitModes == SetupEditor(ModeContents)

SpecModes == InitModes /\ [][NextModes]_vars

\* The editor selects under a mode, moves, also to the parent, adds a
\* cursor and raises
NextRaise ==
    \/ SetSelectionMode
    \/ HandleMovement
    \/ MoveToParent
    \/ AddCursor
    \/ Raise

InitRaise == SetupEditor(RaiseContents)

SpecRaise == InitRaise /\ [][NextRaise]_vars

-----------------------------------------------------------------------------
(* The loop of Editor::get_valid_selection pass by pass, in an editor with *)
(* one cursor: Exchange and Raise call it once, and apply the transaction  *)
(* it returns.                                                             *)

\* The position of the editor in the loop: what get_valid_selection was
\* called with, the next selection of the pass to come, and how many times
\* in a row the loop was left through continue
LoopPosition(transform, movement, highlighted, current_selection, next_selection, retries) ==
    [transform |-> transform, movement |-> movement, highlighted |-> highlighted,
     current_selection |-> current_selection, next_selection |-> next_selection,
     retries |-> retries]

\* The movements Exchange and Raise hand to get_valid_selection
TransformMovements(transform) ==
    IF transform = "exchange" THEN {"Next", "Previous"} ELSE {"Parent"}

\* The texts of the editor whose loop is followed
ValidityContents ==
    {<<"a", "a", ",", "a">>,
     <<"(", "a", ")", ",", "a">>,
     <<"(", "(", "a", ")", ",", "a", ")">>}

\* Editor::exchange and Editor::replace up to the loop of
\* get_valid_selection: the first next selection; without one the call
\* returns Left and the empty transaction is applied
EnterValidityLoop ==
    /\ Alive
    /\ Len(Selections(selection_set)) = 1
    /\ \E transform \in {"exchange", "raise"}, highlighted \in HighlightOutcomes(buffer) :
        \E movement \in TransformMovements(transform) :
        \E next_selection \in {GetSelection(buffer, selection_set.primary,
                                            selection_set.mode, movement)} :
            /\ transform = "exchange" => mode = "Exchange"
            /\ IF next_selection = selection_set.primary
               THEN /\ validity' = None
                    /\ last' = Last(transform, "Ok", None, "left")
               ELSE /\ validity' = Some(LoopPosition(transform, movement, highlighted,
                                                     selection_set.primary,
                                                     next_selection, 0))
                    /\ last' = Last("get_valid_selection", "Ok", None, "loop")
    /\ UNCHANGED <<buffer, selection_set, mode, clipboard, jumps, screen, hist_undo, hist_redo>>

\* One pass through the loop of get_valid_selection.  After continue the
\* editor is where it was before the pass; Right ends the loop and the
\* caller applies the transaction; Left ends it and the caller applies the
\* empty transaction; an error or a panic ends it too.
ValidityPass ==
    /\ last.result # "Panic"
    /\ validity # None
    /\ \E position \in {validity[1]} :
        \E decision \in {ValidityIteration(buffer, selection_set,
                                           position.current_selection,
                                           position.next_selection, selection_set.mode,
                                           position.movement, position.transform,
                                           position.highlighted)} :
        \E r \in {IF decision.step = "Right"
                  THEN Transform(buffer, selection_set, decision, position.highlighted)
                  ELSE Outcome(buffer, IF decision.step \in {"Err", "Panic"}
                                       THEN decision.step ELSE "Ok", selection_set)} :
            /\ decision.step = "Continue" => position.retries < MaxRetries
            /\ Len(r.buffer.undo_patch) <= MaxTransformHist
            /\ buffer' = r.buffer
            /\ selection_set' = r.value
            /\ validity' =
                IF decision.step = "Continue"
                THEN Some([position EXCEPT !.retries = @ + 1])
                ELSE IF decision.step = "Advance"
                THEN Some([position EXCEPT !.next_selection = decision.next_selection,
                                           !.retries = 0])
                ELSE None
            /\ last' = Last(IF decision.step \in {"Continue", "Advance"}
                            THEN "get_valid_selection" ELSE position.transform,
                            r.result, position,
                            IF decision.step = "Right"
                            THEN (IF r.buffer.rope = buffer.rope THEN "unchanged" ELSE "changed")
                            ELSE IF decision.step = "Continue" THEN "continue"
                            ELSE IF decision.step = "Advance" THEN "advance"
                            ELSE IF decision.step = "Left" THEN "left"
                            ELSE "error")
    /\ UNCHANGED <<mode, clipboard, jumps, screen, hist_undo, hist_redo>>

\* The editor of a file with a language selects under a mode, moves, and
\* exchanges and raises pass by pass
NextValidity ==
    \/ SetSelectionMode
    \/ HandleMovement
    \/ EnterExchangeMode
    \/ EnterNormalMode
    \/ EnterValidityLoop
    \/ ValidityPass

InitValidity ==
    /\ \E text \in ValidityContents : buffer = NewBuffer(text, Some("main.rs"), "Formatter")
    /\ selection_set = ModalSelectionSet("Custom", CopiedSelection(0, 0, None), <<>>)
    /\ mode = "Normal"
    /\ clipboard = None
    /\ jumps = <<>>
    /\ validity = <<>>
    /\ screen = <<>>
    /\ last = [op |-> "new", result |-> "Ok", value |-> None, note |-> "new",
               redo_before |-> 0, written |-> None, invoked |-> FALSE]
    /\ hist_undo = <<>>
    /\ hist_redo = <<>>

SpecValidity == InitValidity /\ [][NextValidity]_vars

-----------------------------------------------------------------------------
(* Buffer::get_current_node called for any selection of a text.            *)

\* The texts whose trees get_current_node is called on
NodeContents ==
    {<<"a">>,
     <<"a", ",", "a">>,
     <<"(", "a", ")">>,
     <<"(", "(", "a", ")", ")">>,
     <<"(", "a", ")", ",", "a">>,
     <<"(", "a", ",", "a", ")">>}

\* Editor::set_selection: the editor selects a range of the text
SetSelection ==
    /\ Alive
    /\ \E start \in 0..Len(buffer.rope), end \in 0..Len(buffer.rope) :
        /\ start <= end
        /\ RangeOf(selection_set.primary) # CharIndexRange(start, end)
        /\ selection_set' = ModalSelectionSet("SyntaxTree",
                                              CopiedSelection(start, end, None), <<>>)
        /\ last' = Last("set_selection", "Ok", None, "select")
    /\ UNCHANGED <<buffer, mode, clipboard, jumps, validity, screen, hist_undo, hist_redo>>

\* buffer.get_current_node(selection) for the primary selection
CallGetCurrentNode ==
    /\ Alive
    /\ last.op # "get_current_node"
    /\ last' = Last("get_current_node", "Ok",
                    GetCurrentNode(buffer, RangeOf(selection_set.primary)), "node")
    /\ UNCHANGED <<buffer, selection_set, mode, clipboard, jumps, validity, screen, hist_undo, hist_redo>>

NextCurrentNode ==
    \/ SetSelection
    \/ CallGetCurrentNode

InitCurrentNode == SetupEditor(NodeContents)

SpecCurrentNode == InitCurrentNode /\ [][NextCurrentNode]_vars

-----------------------------------------------------------------------------
(* Undo and redo (claims C1 to C6).                                        *)

\* The last call was a forward edit that returned Ok: a transaction, or a
\* save whose formatter returned a text
ForwardEdit ==
    \/ last.op = "apply_edit_transaction" /\ last.result = "Ok"
    \/ last.op = "save" /\ last.result = "Ok" /\ last.note \in {"no_change", "changed"}

C2_UndoRedoRestoreSelection ==
    [][ /\ (last'.op = "undo" /\ last'.result = "Ok" /\ hist_undo # <<>>)
            => /\ last'.value = Some(Top(hist_undo).sel)
               /\ selection_set' = Top(hist_undo).sel
               /\ Top(hist_redo').sel = selection_set
        /\ (last'.op = "redo" /\ last'.result = "Ok" /\ hist_redo # <<>>)
            => /\ last'.value = Some(Top(hist_redo).sel)
               /\ selection_set' = Top(hist_redo).sel ]_vars

\* A redo has brought back a selection set other than the one the undo
\* before it had restored
C2_Witness ==
    /\ last.op = "redo" /\ last.note = "reverted"
    /\ last.value = Some(selection_set)
    /\ selection_set # Top(hist_undo).sel

\* C3 as claimed: after every successful forward edit (a transaction, a
\* formatting save) the redo stack is empty and a redo changes nothing.
C3_RedoEmptyAfterEveryForwardEdit ==
    ForwardEdit
        => /\ buffer.redo_patches = <<>>
           /\ BufRedo(buffer, selection_set) = Outcome(buffer, "Ok", None)

\* C3 as amended: after every successful forward edit that changed the text
\* the redo stack is empty and a redo changes nothing.
C3_RedoEmptyAfterChangingEdit ==
    (ForwardEdit /\ last.note = "changed")
        => /\ buffer.redo_patches = <<>>
           /\ BufRedo(buffer, selection_set) = Outcome(buffer, "Ok", None)

\* A forward edit changed the text while the redo stack held a patch
C3_Witness ==
    /\ ForwardEdit /\ last.note = "changed"
    /\ last.redo_before > 0

\* C4: an undo on an empty undo stack, and a redo on an empty redo stack,
\* returns Ok(None) and leaves the buffer (text, undo stack, redo stack) and
\* the caller's selection set as they were.
C4_EmptyStackNoOp ==
    [][ /\ (last'.op = "undo" /\ buffer.undo_patch = <<>>)
            => /\ last'.result = "Ok" /\ last'.value = None
               /\ buffer' = buffer /\ selection_set' = selection_set
        /\ (last'.op = "redo" /\ buffer.redo_patches = <<>>)
            => /\ last'.result = "Ok" /\ last'.value = None
               /\ buffer' = buffer /\ selection_set' = selection_set ]_vars

\* An undo met an empty undo stack after a transaction had been undone
C4_Witness ==
    /\ last.op = "undo" /\ last.note = "empty_stack"
    /\ buffer.undo_patch = <<>> /\ buffer.redo_patches # <<>>

\* C5 as claimed: an undo or redo whose patch does not apply to the current
\* text returns an error and leaves the text and both stacks as they were.
C5_PatchMismatchIsReported ==
    [][ (last'.op \in {"undo", "redo"} /\ last'.note = "patch_mismatch")
            => (last'.result = "Err" /\ buffer' = buffer) ]_vars

\* C6 as claimed: a transaction with an edit outside [0, len_chars] returns
\* an error and leaves the text and the undo stack as they were.
C6_OutOfRangeIsRejected ==
    [][ (last'.op = "apply_edit_transaction" /\ last'.note = "out_of_range")
            => (last'.result = "Err" /\ buffer' = buffer) ]_vars

-----------------------------------------------------------------------------
(* Save (claim C10).                                                       *)

\* C10: a save whose tree has an error does not call the formatter, and a
\* save whose formatter fails keeps the text; in both cases the buffer
\* (text, undo stack, redo stack) is as before and the text written to the
\* path is the unformatted text; a save that changes the text had a tree
\* without error and a formatter that returned Ok.
C10_SaveKeepsTextOnError ==
    [][ /\ (last'.op = "save" /\ last'.note = "tree_error") => ~last'.invoked
        /\ (last'.op = "save" /\ last'.note \in {"tree_error", "formatter_error"})
            => (buffer' = buffer /\ last'.written = Some(buffer.rope))
        /\ (last'.op = "save" /\ buffer'.rope # buffer.rope)
            => last'.note = "changed" ]_vars

\* A save met a formatter error while the buffer held history
C10_Witness ==
    /\ last.op = "save" /\ last.note = "formatter_error"
    /\ last.invoked /\ last.written = Some(buffer.rope)
    /\ buffer.undo_patch # <<>>

C12_SaveWithoutPathIsNoOp ==
    [][ (last'.op = "save" /\ buffer.path = None)
            => /\ last'.result = "Ok" /\ last'.value = None
               /\ EditorSaveDispatches(last'.value) = <<>>
               /\ last'.written = None
               /\ buffer' = buffer ]_vars

\* A buffer without path was saved while it held an undone transaction
C12_Witness ==
    /\ last.op = "save" /\ buffer.path = None
    /\ last.value = None /\ last.written = None
    /\ buffer.redo_patches # <<>>
    /\ buffer.rope # <<"a", NL>>

\* C13: update(text) replaces the whole content and leaves the undo stack
\* and the redo stack as they were.
C13_UpdateKeepsHistory ==
    [][ last'.op = "update"
            => /\ buffer'.undo_patch = buffer.undo_patch
               /\ buffer'.redo_patches = buffer.redo_patches
               /\ buffer'.rope \in UpdateTexts
               /\ buffer' = [buffer EXCEPT !.rope = buffer'.rope, !.tree = buffer'.rope]
      ]_vars

\* An update changed the text of a buffer that held both an undo patch and
\* an undone transaction
C13_Witness ==
    /\ last.op = "update"
    /\ buffer.undo_patch # <<>> /\ buffer.redo_patches # <<>>
    /\ buffer.rope # Top(hist_undo).from

-----------------------------------------------------------------------------
(* Kill (claims C14 to C17).  C is the extended range of the one selection *)
(* of the editor, N the next element under the active mode, P the previous *)
(* one, taken from the text before the Kill.                               *)

KillC == RangeOf(selection_set.primary)

ElementsAfterC ==
    {r \in ModeIter(buffer.rope, selection_set.mode) : r.start > KillC.start}

ElementsBeforeC ==
    {r \in ModeIter(buffer.rope, selection_set.mode) : r.start < KillC.start}

KillN == FirstOf(ElementsAfterC)
KillP == LastOf(ElementsBeforeC)

\* The text between C.end and N.start
KillGap == Slice(buffer.rope, CharIndexRange(KillC.end, KillN.start))

\* The step is a Kill with one cursor on a non-empty range C of the text
KillOfC ==
    /\ last'.op = "kill"
    /\ selection_set.secondary = <<>>
    /\ KillC.start < KillC.end /\ KillC.end <= Len(buffer.rope)

\* A next element N exists and starts at or after C.end
NextFollowsC == ElementsAfterC # {} /\ KillC.end <= KillN.start

\* The Kill deleted [C.start, N.start) and selects N, moved left by the
\* deleted length
KilledToNext ==
    /\ last'.result = "Ok"
    /\ buffer'.rope = RopeRemove(buffer.rope, KillC.start, KillN.start)
    /\ selection_set'.secondary = <<>>
    /\ RangeOf(selection_set'.primary)
            = CharIndexRange(KillC.start, KillC.start + RangeLen(KillN))
    /\ Slice(buffer'.rope, RangeOf(selection_set'.primary)) = Slice(buffer.rope, KillN)

\* The Kill deleted exactly the chars of C and selects the one-char range
\* starting at C.start
KilledCurrentOnly ==
    /\ last'.result = "Ok"
    /\ buffer'.rope = RopeRemove(buffer.rope, KillC.start, KillC.end)
    /\ selection_set'.secondary = <<>>
    /\ RangeOf(selection_set'.primary) = CharIndexRange(KillC.start, KillC.start + 1)

\* C14: when the active mode is contiguous, a next element N exists and the
\* text between C.end and N.start is empty or only whitespace, Kill deletes
\* exactly [C.start, N.start) and the new selection is N shifted left by the
\* deleted length, selecting N's text.
C14_KillContiguousOverWhitespace ==
    [][ (KillOfC /\ NextFollowsC /\ IsContiguous(selection_set.mode) /\ IsBlank(KillGap))
            => KilledToNext ]_vars

\* A sibling was killed together with the blank that separated it from the
\* next sibling, which is selected
C14_Witness ==
    /\ last.op = "kill" /\ last.result = "Ok"
    /\ selection_set.mode = "SyntaxTree"
    /\ buffer.rope = <<"a">>
    /\ RangeOf(selection_set.primary) = CharIndexRange(0, 1)
    /\ Len(buffer.undo_patch) = 1
    /\ BufUndo(buffer, selection_set).buffer.rope = <<"a", " ", "a">>

\* C15: in a contiguous mode, with a next sibling N separated from C by a
\* separator that is not whitespace (a:A,b:B), Kill deletes [C.start, N.start),
\* the separator included, and the new selection is N's text.
C15_KillContiguousOverSeparator ==
    [][ (KillOfC /\ NextFollowsC /\ IsContiguous(selection_set.mode) /\ ~IsBlank(KillGap))
            => KilledToNext ]_vars

\* A sibling was killed together with the comma that separated it from the
\* next sibling, which is selected
C15_Witness ==
    /\ last.op = "kill" /\ last.result = "Ok"
    /\ selection_set.mode = "SyntaxTree"
    /\ buffer.rope = <<"a">>
    /\ RangeOf(selection_set.primary) = CharIndexRange(0, 1)
    /\ Len(buffer.undo_patch) = 1
    /\ BufUndo(buffer, selection_set).buffer.rope = <<"a", ",", "a">>

\* C16 as claimed: when C is the last element under the active mode and a
\* previous element P exists, Kill removes C's text and the resulting
\* selection is P.
C16_KillLastSelectsPrevious ==
    [][ ( /\ KillOfC
          /\ KillC \in ModeIter(buffer.rope, selection_set.mode)
          /\ ElementsAfterC = {} /\ ElementsBeforeC # {} )
            => /\ last'.result = "Ok"
               /\ Len(buffer'.rope) <= Len(buffer.rope) - RangeLen(KillC)
               /\ SubSeq(buffer'.rope, 1, KillP.end) = SubSeq(buffer.rope, 1, KillP.end)
               /\ RangeOf(selection_set'.primary) = KillP ]_vars

-----------------------------------------------------------------------------
(* Cut and Paste (claims C18 to C20).                                      *)

\* The ranges of the selections of a set
RangesOfSet(set) == {RangeOf(Selections(set)[i]) : i \in 1..Len(Selections(set))}

\* The text without the chars of the ranges, which do not overlap
RECURSIVE RemoveRanges(_, _)
RemoveRanges(text, ranges) ==
    IF ranges = {} THEN text
    ELSE LET r == LastOf(ranges)
         IN  RemoveRanges(RopeRemove(text, r.start, r.end), ranges \ {r})

\* The ways to pair the n selections before an operation with the n
\* selections after it, the primary one with the primary one
Pairings(n) ==
    {after \in [1..n -> 1..n] :
        /\ after[1] = 1
        /\ \A i, j \in 1..n : i # j => after[i] # after[j]}

\* No two selections of the set share a char or a start, and all lie in the text
SelectionsApart(set) ==
    /\ \A i \in 1..Len(Selections(set)) : InText(buffer.rope, RangeOf(Selections(set)[i]))
    /\ \A i, j \in 1..Len(Selections(set)) :
            i # j => \/ Selections(set)[i].end <= Selections(set)[j].start
                     \/ Selections(set)[j].end <= Selections(set)[i].start
    /\ \A i, j \in 1..Len(Selections(set)) :
            i # j => Selections(set)[i].start # Selections(set)[j].start

\* C18: Cut removes exactly the extended range of every selection, leaves
\* each selection carrying the text removed at that selection as its copied
\* text, and sets the clipboard to the removed text if and only if there is
\* a single cursor.
C18_CutRemovesAndCopiesEachRange ==
    [][ (last'.op = "cut" /\ SelectionsApart(selection_set))
            => /\ last'.result = "Ok"
               /\ buffer'.rope = RemoveRanges(buffer.rope, RangesOfSet(selection_set))
               /\ Len(Selections(selection_set')) = Len(Selections(selection_set))
               /\ \E after \in Pairings(Len(Selections(selection_set))) :
                    \A i \in 1..Len(Selections(selection_set)) :
                        Selections(selection_set')[after[i]].copied_text
                            = Some(Slice(buffer.rope, RangeOf(Selections(selection_set)[i])))
               /\ clipboard' = IF selection_set.secondary = <<>>
                               THEN Some(Slice(buffer.rope, RangeOf(selection_set.primary)))
                               ELSE clipboard ]_vars

\* Two cursors have cut different texts, and the clipboard still holds what
\* the application had set
C18_Witness ==
    /\ last.op = "cut" /\ last.result = "Ok"
    /\ Len(selection_set.secondary) = 1
    /\ selection_set.primary.copied_text = Some(<<"a">>)
    /\ selection_set.secondary[1].copied_text = Some(<<",">>)
    /\ clipboard = Some(<<"a">>)
    /\ buffer.rope = <<"a">>

\* Sum of f over a set of indices
RECURSIVE SumOver(_, _)
SumOver(f, indices) ==
    IF indices = {} THEN 0
    ELSE LET i == CHOOSE k \in indices : TRUE
         IN  f[i] + SumOver(f, indices \ {i})

\* The text Paste inserts at selection i: its copied text, the content of
\* the clipboard when it has none
PastedAt(i) ==
    LET selection == Selections(selection_set)[i]
        copied == IF selection.copied_text # None THEN selection.copied_text
                  ELSE clipboard
    IN  IF copied = None THEN <<>> ELSE copied[1]

C19_EmptyBufferWitness ==
    /\ last.op = "paste" /\ last.result = "Ok"
    /\ buffer.rope = <<"a">>
    /\ RangeOf(selection_set.primary) = CharIndexRange(0, 1)
    /\ Len(buffer.undo_patch) = 1
    /\ BufUndo(buffer, selection_set).buffer.rope = <<>>

\* C20 as claimed: in a contiguous mode, Paste(End) or Paste(Start) of a
\* peer element on an element C inserts the pasted text together with a
\* separator equal to the gap between C and its neighbour in that direction
\* (a,b + c gives a,c,b for End), and the new selection is exactly the pasted
\* text without the separator.
C20_SmartPasteAddsSeparator ==
    [][ ( /\ last'.op = "paste"
          /\ selection_set.secondary = <<>>
          /\ IsContiguous(selection_set.mode)
          /\ KillC \in ModeIter(buffer.rope, selection_set.mode)
          /\ PastedAt(1) # <<>>
          /\ \A k \in 1..Len(PastedAt(1)) : PastedAt(1)[k] \in Letters
          /\ IF last'.value = "End"
             THEN ElementsAfterC # {} /\ KillC.end < KillN.start
             ELSE ElementsBeforeC # {} /\ KillP.end < KillC.start )
            => IF last'.value = "End"
               THEN /\ buffer'.rope = RopeInsert(buffer.rope, KillC.end,
                                                 KillGap \o PastedAt(1))
                    /\ RangeOf(selection_set'.primary)
                        = CharIndexRange(KillC.end + Len(KillGap),
                                         KillC.end + Len(KillGap) + Len(PastedAt(1)))
               ELSE /\ buffer'.rope
                        = RopeInsert(buffer.rope, KillC.start,
                                     PastedAt(1) \o Slice(buffer.rope,
                                         CharIndexRange(KillP.end, KillC.start)))
                    /\ RangeOf(selection_set'.primary)
                        = CharIndexRange(KillC.start, KillC.start + Len(PastedAt(1)))
      ]_vars

-----------------------------------------------------------------------------
(* Position mapping (claims C25 and C26).                                  *)

\* The chars of the line a position names, its line break left out
LineLen(rope, line) ==
    LET start == TryLineToChar(rope, line)[1]
        next == TryLineToChar(rope, line + 1)[1]
    IN  IF line + 1 < LenLines(rope) THEN next - start - 1
        ELSE Len(rope) - start

\* C25: for every char index c in [0, len_chars] of any text, with chars of
\* several bytes and with or without a line break at its end,
\* byte_to_char(char_to_byte(c)) = c and
\* position_to_char(char_to_position(c)) = c.
C25_PositionMappingRoundTrips ==
    [][ /\ ( /\ last.op = "char_to_byte" /\ last.value.input <= Len(buffer.rope)
             /\ last'.op = "byte_to_char" /\ Some(last'.value.input) = last.value.output )
            => last'.value.output = Some(last.value.input)
        /\ ( /\ last.op = "char_to_position" /\ last.value.input <= Len(buffer.rope)
             /\ last'.op = "position_to_char" /\ Some(last'.value.input) = last.value.output )
            => last'.value.output = Some(last.value.input) ]_vars

\* The char after a char of two bytes and a line break was mapped to its
\* position and back
C25_Witness ==
    /\ buffer.rope = <<Wide, NL, "a">>
    /\ last.op = "position_to_char"
    /\ last.value.prior.op = "char_to_position"
    /\ last.value.prior.input = 3
    /\ last.value.prior.output = Some([line |-> 1, column |-> 1])
    /\ last.value.input = [line |-> 1, column |-> 1]
    /\ last.value.output = Some(3)

\* The char after a char of two bytes was mapped to its byte and back
C25_ByteWitness ==
    /\ buffer.rope = <<Wide, NL, "a">>
    /\ last.op = "byte_to_char"
    /\ last.value.prior.op = "char_to_byte"
    /\ last.value.prior.input = 2
    /\ last.value.prior.output = Some(3)
    /\ last.value.input = 3
    /\ last.value.output = Some(2)

\* C26 as claimed: position_to_char of a position whose column exceeds the
\* length of its line saturates at the end of that line; the result never
\* points into a following line and never exceeds len_chars.
C26_ColumnSaturatesAtLineEnd ==
    ( /\ last.op = "position_to_char"
      /\ last.value.input.line < LenLines(buffer.rope)
      /\ last.value.input.column > LineLen(buffer.rope, last.value.input.line) )
        => /\ last.result = "Ok"
           /\ last.value.output[1] = TryLineToChar(buffer.rope, last.value.input.line)[1]
                                        + LineLen(buffer.rope, last.value.input.line)
           /\ last.value.output[1] <= Len(buffer.rope)

-----------------------------------------------------------------------------
(* LineTrimmed (claim C27).                                                *)

\* The real lines of a text: the lines a line break ends and a last line
\* without line break; the empty text is one empty line
RealLines(text) == IF text = <<>> THEN <<<<>>>> ELSE LinesOf(text)

\* A line without its line break
WithoutNewline(line) ==
    IF EndsWithNewline(line) THEN SubSeq(line, 1, Len(line) - 1) ELSE line

\* The byte where the content of the k-th real line ends
LineEndByte(text, k) ==
    ByteLen(Flatten(SubSeq(RealLines(text), 1, k - 1)))
        + ByteLen(WithoutNewline(RealLines(text)[k]))

\* C27: LineTrimmed yields exactly one range per real line in ascending
\* order: for a text ending with a line break the empty line after it yields
\* no range, and for a text not ending with a line break (the empty text
\* included) the last line yields a range.
C27_LineTrimmedOneRangePerRealLine ==
    last.op = "line_trimmed"
        => LET ranges == last.value
           IN  /\ Len(ranges) = Len(RealLines(buffer.rope))
               /\ \A k \in 1..Len(ranges) :
                    ranges[k].end = LineEndByte(buffer.rope, k)
               /\ \A j, k \in 1..Len(ranges) :
                    j < k => /\ ranges[j].end < ranges[k].end
                             /\ ranges[j].start <= ranges[k].start

\* The lines of a text that ends with a line break: two ranges, none for the
\* empty line after the last line break
C27_Witness ==
    /\ last.op = "line_trimmed"
    /\ buffer.rope = <<"a", NL, NL>>
    /\ last.value = <<ByteRange(0, 1), ByteRange(2, 2)>>

\* The last line of a text that does not end with a line break has a range
C27_LastLineWitness ==
    /\ last.op = "line_trimmed"
    /\ buffer.rope = <<Wide, NL, "a">>
    /\ last.value = <<ByteRange(0, 2), ByteRange(3, 4)>>

\* The empty text has one empty range
C27_EmptyTextWitness ==
    /\ last.op = "line_trimmed"
    /\ buffer.rope = <<>>
    /\ last.value = <<ByteRange(0, 0)>>

-----------------------------------------------------------------------------
(* Diagnostics (claims C28 and C29).                                       *)

\* The char ranges of the diagnostics of a buffer
DiagnosticCharRanges(b) ==
    [i \in 1..Len(b.diagnostics) |-> DiagnosticCharRange(b, b.diagnostics[i])]

\* C28 as claimed: after set_diagnostics(D), an edit transaction that inserts
\* or deletes text on a diagnostic's line before the diagnostic shifts the
\* diagnostic's char range by the inserted or deleted length, so that it
\* still covers the same text (3..7 become 8..12 after inserting 5 chars at
\* the start of the line).
C28_DiagnosticsShiftWithEdits ==
    [][ (last'.op = "apply_edit_transaction" /\ last'.result = "Ok")
            => LET edit == last'.value
                   before == DiagnosticCharRanges(buffer)
                   after == DiagnosticCharRanges(buffer')
               IN  \A i \in 1..Len(before) :
                    ( /\ before[i] # None
                      /\ before[i][1].end <= Len(buffer.rope)
                      /\ edit.end <= before[i][1].start
                      /\ TryCharToLine(buffer.rope, edit.start)
                            = Some(buffer.diagnostics[i].range.start.line)
                      /\ TryCharToLine(buffer.rope, edit.end)
                            = Some(buffer.diagnostics[i].range.start.line) )
                        => /\ after[i] # None
                           /\ after[i][1].start = before[i][1].start + NetOffset(edit)
                           /\ after[i][1].end = before[i][1].end + NetOffset(edit)
                           /\ Slice(buffer'.rope, after[i][1]) = Slice(buffer.rope, before[i][1])
      ]_vars

\* C29 as claimed: for any list passed to set_diagnostics, in any order and
\* with diagnostics sharing a start, and every stored diagnostic range S, if
\* get_diagnostic(S, Forward) returns N different from S then
\* get_diagnostic(N, Backward) returns S.
C29_DiagnosticNavigationReversible ==
    ( /\ last.op = "get_diagnostic"
      /\ last.value.direction = "Backward"
      /\ last.value.prior # None
      /\ last.value.prior[1] # last.value.input
      /\ BufFindDiagnostic(buffer, last.value.prior[1]) # None )
        => last.value.output = last.value.prior

-----------------------------------------------------------------------------
(* The channel of the screen (claim C30).                                  *)

\* The messages of a sequence that publish diagnostics for a path
PublishedFor(messages, path) ==
    SelectSeq(messages, LAMBDA message :
                message.kind = "PublishDiagnostics" /\ message.path = Some(path))

\* The messages the loop has handled a dispatch or the render of, in the
\* order of their first entry
RECURSIVE Runs(_)
Runs(entries) ==
    IF entries = <<>> THEN <<>>
    ELSE LET rest == Runs(Tail(entries))
         IN  IF rest # <<>> /\ Head(rest) = Head(entries).id THEN rest
             ELSE <<Head(entries).id>> \o rest

-----------------------------------------------------------------------------
(* Jump mode (claim C24).                                                  *)

\* The selections of a sequence of jumps, in their order
JumpSelections(candidates) ==
    [i \in 1..Len(candidates) |-> candidates[i].selection]

\* What decreases at every key that leaves jumps shown: twice the number of
\* jumps, less one when they carry the cycled jump characters
JumpMeasure(shown) ==
    IF shown = None THEN 0
    ELSE 2 * Len(shown[1])
            - (IF \A i \in 1..Len(shown[1]) :
                    shown[1][i].character = CycledJumpCharacter(i)
               THEN 1 ELSE 0)

\* The key steps of jump mode, whatever the mode of the editor
JumpKeyStep(normal_only) ==
    /\ last'.op = "jump_key"
    /\ last'.note \in {"jump", "relabel"}
    /\ normal_only => mode = "Normal"
    /\ LET matching_jumps == MatchingJumps(jumps[1], last'.value.key)
       IN  /\ Len(matching_jumps) = 1 =>
                /\ RangeOf(selection_set'.primary) = RangeOf(matching_jumps[1].selection)
                /\ jumps' = None
           /\ Len(matching_jumps) >= 2 =>
                /\ jumps' # None
                /\ JumpSelections(jumps'[1]) = JumpSelections(matching_jumps)
                /\ \A i \in 1..Len(matching_jumps) :
                        jumps'[1][i].character = CycledJumpCharacter(i)
                /\ selection_set' = selection_set
           /\ JumpMeasure(jumps') < JumpMeasure(jumps)

C24_UniqueWitness ==
    /\ last.op = "jump_key"
    /\ last.note = "jump"
    /\ mode = "Normal"
    /\ Len(last.value.jumps) = 2
    /\ last.value.jumps[2].character = "b"
    /\ last.value.key = "b"
    /\ RangeOf(selection_set.primary) = RangeOf(last.value.jumps[2].selection)
    /\ jumps = None

-----------------------------------------------------------------------------
(* Exchange (claim C22).                                                   *)

\* The last call was an exchange that changed the text
ExchangeChanged == last.op = "exchange" /\ last.result = "Ok" /\ last.note = "changed"

\* The last call was an exchange with the previous element that came right
\* after an exchange with the next element that changed the text
ExchangedBack == last.op = "exchange" /\ last.result = "Ok" /\ last.value.prior # None

\* The editor has as many selections as texts were selected
SelectsAll(texts) == Len(Selections(selection_set)) = Len(texts)

\* After the two exchanges the text and the selected texts are those the
\* first exchange started from, and after an exchange that changed the text
\* the selections cover the texts that were selected; when kept_only, for
\* the exchanges that kept every cursor only
ExchangeKeeps(kept_only) ==
    /\ (/\ ExchangedBack
        /\ kept_only => /\ SelectsAll(last.value.prior[1].texts)
                        /\ SelectsAll(last.value.from.texts))
        => /\ buffer.rope = last.value.prior[1].rope
           /\ SelectedTexts(buffer.rope, selection_set) = last.value.prior[1].texts
    /\ (/\ ExchangeChanged
        /\ kept_only => SelectsAll(last.value.from.texts))
        => SelectedTexts(buffer.rope, selection_set) = last.value.from.texts

C22_TwoCursorsWitness ==
    /\ ExchangedBack
    /\ last.note = "changed"
    /\ Len(last.value.prior[1].texts) = 2
    /\ Len(last.value.from.texts) = 2
    /\ Len(Selections(selection_set)) = 2

\* Of two cursors one has exchanged and the other, which had no element to
\* exchange with, is gone
C22_DroppedCursorWitness ==
    /\ ExchangeChanged
    /\ Len(last.value.from.texts) = 2
    /\ Len(Selections(selection_set)) = 1

-----------------------------------------------------------------------------
(* Raise (claim C21).                                                      *)

\* The ranges the movement Parent leads to from a range, one after the other
RECURSIVE ParentTargets(_, _, _)
ParentTargets(b, range, selection_mode) ==
    LET From(parent) ==
            IF parent = range THEN {}
            ELSE {parent} \cup ParentTargets(b, parent, selection_mode)
    IN  UNION {From(parent) : parent \in {ApplyParent(b, range, selection_mode)}}

\* The last call was a raise that changed the text and kept every cursor
Raised ==
    /\ last.op = "raise" /\ last.result = "Ok" /\ last.note = "changed"
    /\ Len(Selections(selection_set)) = Len(Selections(last.value.selection_set))

\* What a raise over a target does to the selection it starts from: the
\* range spanned by the selection and the target, and the selected text
RaiseOver(rope, selection, target) ==
    [start |-> Min(selection.start, target.start),
     end |-> Max(selection.end, target.end),
     text |-> Slice(rope, RangeOf(selection))]

\* A text with the ranges of some raises replaced by their texts, the ranges
\* being apart from each other
RECURSIVE RaisedText(_, _)
RaisedText(rope, raises) ==
    IF raises = {} THEN rope
    ELSE LET Rest(r) ==
                RaisedText(SubSeq(rope, 1, r.start) \o r.text
                                \o SubSeq(rope, r.end + 1, Len(rope)),
                           raises \ {r})
         IN  CHOOSE text \in
                {Rest(r) : r \in {CHOOSE r \in raises :
                                    \A q \in raises : q.start <= r.start}} : TRUE

\* Where the range of a raise starts once the raises before it are made
RaisedStart(raises, i) ==
    raises[i].start
        - SumOver([j \in 1..Len(raises) |->
                      (raises[j].end - raises[j].start) - Len(raises[j].text)],
                  {j \in 1..Len(raises) : raises[j].start < raises[i].start})

\* The raises are apart from each other, the text is the text before with
\* the range of every raise replaced by its text, and the selection of every
\* raise covers its text from the start of its range on
RaisedBy(before, raises) ==
    /\ \A i, j \in 1..Len(raises) :
        raises[i].start < raises[j].start => raises[i].end <= raises[j].start
    /\ buffer.rope = RaisedText(before, {raises[i] : i \in 1..Len(raises)})
    /\ \A i \in 1..Len(raises) :
        \A selection \in {Selections(selection_set)[i]} :
        \A start \in {RaisedStart(raises, i)} :
            /\ selection.start = start
            /\ selection.end = start + Len(raises[i].text)
            /\ Slice(buffer.rope, RangeOf(selection)) = raises[i].text

C21_TwoCursorsWitness ==
    /\ Raised
    /\ Len(Selections(selection_set)) = 2
    /\ buffer.rope = <<"a", ",", "a">>

-----------------------------------------------------------------------------
(* The loop of get_valid_selection (claim C23).                            *)

\* How far the next selection of a position is from the end of its
\* movement: the chars after it, before it, or outside it
LoopMeasure(position) ==
    CASE position.movement = "Next" -> Len(buffer.rope) - position.next_selection.start
      [] position.movement = "Previous" -> position.next_selection.start
      [] OTHER -> Len(buffer.rope) - (position.next_selection.end
                                        - position.next_selection.start)

\* A pass that does not end the loop leaves a next selection that is nearer
\* to the end of the movement, in the loops whose tentative transactions
\* are among those of the given outcomes of the highlighter
PassAdvances(outcomes) ==
    (validity # None /\ validity' # None /\ validity[1].highlighted \in outcomes)
        => /\ buffer' = buffer
           /\ validity'[1].next_selection # validity[1].next_selection
           /\ LoopMeasure(validity'[1]) < LoopMeasure(validity[1])

\* C23: the validity loop of Exchange and Raise always terminates: every
\* pass returns a transaction that passed the checks, or a no-op once the
\* movement yields no new selection, or goes on with a new next selection
\* nearer to the end of the movement, also when the tentative transaction
\* cannot be applied to the copy of the buffer.
C23_ValidityLoopTerminates == [][PassAdvances({"Ok", "Err"})]_vars

\* C23, for the tentative transactions that can be applied: every pass
\* returns or goes on with a new next selection nearer to the end of the
\* movement.
C23_ValidityLoopTerminatesWhenApplied == [][PassAdvances({"Ok"})]_vars

\* A call that ends with a no-op leaves text and selection as they were
C23_NoOpLeavesTextAndSelection ==
    [][(validity' = None /\ last'.note = "left" /\ last'.result = "Ok")
        => buffer' = buffer /\ selection_set' = selection_set]_vars

\* The loop has gone on to a second target after the first one failed the
\* checks, and returned the transaction of the second
C23_Witness ==
    /\ validity = None
    /\ last.op = "raise" /\ last.note = "changed"
    /\ last.value.highlighted = "Ok"
    /\ RangeOf(last.value.current_selection) = CharIndexRange(2, 3)
    /\ RangeOf(last.value.next_selection) = CharIndexRange(1, 6)
    /\ buffer.rope = <<"(", "a", ")">>

\* The tentative transaction could not be applied and the loop is where it
\* was, MaxRetries times in a row
C23_ContinueWitness ==
    /\ validity # None
    /\ validity[1].retries = MaxRetries
    /\ last.note = "continue"

-----------------------------------------------------------------------------
(* The session and the failures of its handlers (claim C31).               *)

\* The last message was handled with an error the handler returned
HandlerFailed == last.op \in {"key_event", "lsp_notification"} /\ last.result = "Err"

\* C31: a failure while handling a message never ends the session: the
\* loop of Screen::run has ended only when quit was requested and no window
\* is left, and a message whose handling failed left the loop running with
\* the error reported.
C31_FailureNeverEndsSession ==
    /\ screen.exit # "running" => screen.exit = "quit" /\ screen.windows = 0
    /\ HandlerFailed => screen.exit = "running" /\ screen.reported # None

\* C31, for the errors the handlers return: a message whose handling
\* returned an error left the loop running with the error reported
C31_ReturnedErrorsKeepSessionRunning ==
    HandlerFailed => screen.exit = "running" /\ screen.reported # None

\* C31, for the end of the loop: the loop broke only on a quit that left no
\* window
C31_LoopBreaksOnlyOnLastQuit ==
    screen.exit = "quit" => screen.windows = 0 /\ last.note = "quit"

\* A key typed in the focused editor has ended the session
C31_PanicWitness ==
    /\ screen.exit = "panic"
    /\ last.op = "key_event"
    /\ last.result = "Panic"

\* A notification that could not be converted was reported and the loop
\* runs on
C31_ErrorWitness ==
    /\ HandlerFailed
    /\ last.op = "lsp_notification"
    /\ screen.reported = Some("info")
    /\ screen.exit = "running"

-----------------------------------------------------------------------------
(* The keymap legend (claim C32).                                          *)

\* The last call handled a key while the legend was in Insert mode
InterceptedKey == last.op = "handle_key_event" /\ last.value.mode = "Insert"

\* The keymaps of the legend whose event is the key of the last call
MatchingKeymaps ==
    {i \in 1..Len(screen.config.keymaps) : screen.config.keymaps[i].event = last.value.event}

\* A key other than esc that matches no keymap returns no dispatch and
\* leaves the mode and the content of the legend
UnmatchedKeyIsIgnored ==
    (/\ InterceptedKey
     /\ last.value.event # ParseKeyEvent(<<"esc">>)
     /\ MatchingKeymaps = {})
        => /\ last.value.dispatches = <<>>
           /\ mode = last.value.mode
           /\ buffer.rope = last.value.content

\* C32: while the legend is in its initial Insert mode, a key event equal
\* to the event of a configured keymap returns exactly CloseCurrentWindow
\* to the owner and then the dispatch of that keymap, and a key other than
\* esc that matches no keymap returns no dispatch and changes neither the
\* mode nor the content of the legend.
C32_LegendInterceptsConfiguredKeys ==
    /\ InterceptedKey
        => \A i \in MatchingKeymaps :
                last.value.dispatches
                    = <<CloseCurrentWindow(screen.config.owner_id),
                        screen.config.keymaps[i].dispatch>>
    /\ UnmatchedKeyIsIgnored

\* C32, for the keymap that is found: a key event other than esc returns
\* CloseCurrentWindow to the owner and then the dispatch of the first
\* keymap whose event it equals, and a key other than esc that matches no
\* keymap returns no dispatch and changes neither the mode nor the content.
C32_LegendInterceptsFirstConfiguredKey ==
    /\ (InterceptedKey /\ last.value.event # ParseKeyEvent(<<"esc">>))
        => \A i \in MatchingKeymaps :
                (\A j \in MatchingKeymaps : i <= j)
                    => last.value.dispatches
                            = <<CloseCurrentWindow(screen.config.owner_id),
                                screen.config.keymaps[i].dispatch>>
    /\ UnmatchedKeyIsIgnored

\* The key "s" of the test: the legend with the one keymap "s" returned
\* the two dispatches
C32_Witness ==
    /\ InterceptedKey
    /\ Len(screen.config.keymaps) = 1
    /\ screen.config.keymaps[1].key = <<"s">>
    /\ last.value.event = KeyEvent(<<"Char", "s">>, "NONE")
    /\ last.value.dispatches = <<CloseCurrentWindow(1), "Spongebob">>

\* A key that matches no keymap was typed in a legend that shows two rows
C32_UnmatchedWitness ==
    /\ InterceptedKey
    /\ last.value.event = KeyEvent(<<"Char", "x">>, "NONE")
    /\ last.value.dispatches = <<>>
    /\ \E i \in 1..Len(buffer.rope) : buffer.rope[i] = NL

\* Two keymaps have the event of the key (" " and "space"), with two
\* dispatches
C32_SameEventWitness ==
    /\ InterceptedKey
    /\ Cardinality(MatchingKeymaps) = 2
    /\ screen.config.keymaps[1].key # screen.config.keymaps[2].key
    /\ screen.config.keymaps[1].dispatch # screen.config.keymaps[2].dispatch

-----------------------------------------------------------------------------
(* The ranges of LineTrimmed (claim C33).                                  *)

\* The byte where the k-th real line starts
LineStartByte(text, k) == ByteLen(Flatten(SubSeq(RealLines(text), 1, k - 1)))

\* The range lies in the bytes of the k-th real line before its line break,
\* and is empty only if the line is, or holds white space only
WellFormedLineRange(text, k, range) ==
    /\ range.start <= range.end
    /\ LineStartByte(text, k) <= range.start
    /\ range.end <= LineEndByte(text, k)
    /\ 0 <= range.start /\ range.end <= ByteLen(text)
    /\ range.start = range.end => IsBlank(WithoutNewline(RealLines(text)[k]))

\* C33: every range LineTrimmed::iter produces is well formed for every
\* text: start <= end, both lie inside the bytes of the line before its line
\* break and within [0, len_bytes], and the content is non-empty unless the
\* line is empty, also for lines of white space only that end with a line
\* break and for lines that start with white space of several bytes.
C33_LineTrimmedRangesWellFormed ==
    last.op = "line_trimmed"
        => \A k \in 1..Len(last.value) :
                WellFormedLineRange(buffer.rope, k, last.value[k])

\* C33, for the lines without white space: their ranges are well formed
C33_RangesOfLinesWithoutWhitespaceWellFormed ==
    last.op = "line_trimmed"
        => \A k \in 1..Len(last.value) :
                (\A i \in 1..Len(WithoutNewline(RealLines(buffer.rope)[k])) :
                        WithoutNewline(RealLines(buffer.rope)[k])[i] \notin Whitespace)
                    => WellFormedLineRange(buffer.rope, k, last.value[k])

\* The range of a line of one blank that ends with a line break starts
\* after its end
C33_ReversedRangeWitness ==
    /\ last.op = "line_trimmed"
    /\ buffer.rope = <<" ", NL>>
    /\ last.value = <<ByteRange(2, 1)>>

\* The range of a line that starts with a white space of two bytes starts
\* inside that char
C33_WideBlankWitness ==
    /\ last.op = "line_trimmed"
    /\ buffer.rope = <<WideBlank, "a">>
    /\ last.value = <<ByteRange(1, 3)>>

-----------------------------------------------------------------------------
(* get_current_node (claim C34).                                           *)

\* The smallest node that covers the primary selection
SmallestCovering ==
    DescendantForRange(buffer.tree, selection_set.primary.start, selection_set.primary.end)

\* The node has a parent with its range
HasParentOfSameRange(node) ==
    \E parent \in {NodeParent(buffer.tree, node)} :
        /\ parent # None
        /\ parent[1].start = node.start
        /\ parent[1].end = node.end

\* C34: get_current_node returns, for every tree and selection, the
\* topmost ancestor whose range is that of the smallest descendant covering
\* the selection: the node returned has the range of that descendant and no
\* parent with the same range, also when the chain of ancestors with the
\* same range reaches the root.
C34_CurrentNodeIsTopmostOfItsRange ==
    last.op = "get_current_node"
        => /\ last.value.start = SmallestCovering.start
           /\ last.value.end = SmallestCovering.end
           /\ ~HasParentOfSameRange(last.value)

\* C34, below the root: the same when the smallest descendant has not the
\* range of the root
C34_CurrentNodeIsTopmostBelowTheRoot ==
    (/\ last.op = "get_current_node"
     /\ \/ SmallestCovering.start # 0
        \/ SmallestCovering.end # Len(buffer.tree))
        => /\ last.value.start = SmallestCovering.start
           /\ last.value.end = SmallestCovering.end
           /\ ~HasParentOfSameRange(last.value)

\* The list inside "((a))" is returned for the selection of the inner
\* group, which has the same range
C34_Witness ==
    /\ last.op = "get_current_node"
    /\ buffer.rope = <<"(", "(", "a", ")", ")">>
    /\ RangeOf(selection_set.primary) = CharIndexRange(1, 4)
    /\ SmallestCovering = Node("group", 1, 4)
    /\ last.value = Node("list", 1, 4)

\* For the selection of all of "(a)" the group is returned, whose parent,
\* the root, has the same range
C34_RootWitness ==
    /\ last.op = "get_current_node"
    /\ buffer.rope = <<"(", "a", ")">>
    /\ RangeOf(selection_set.primary) = CharIndexRange(0, 3)
    /\ last.value = Node("group", 0, 3)
    /\ NodeParent(buffer.tree, last.value) = Some(Node("source", 0, 3))

-----------------------------------------------------------------------------
(* The tree while inserting (claim C35).                                   *)

\* The step is an insertion made in Insert mode that changed the text
InsertsInInsertMode ==
    /\ mode = "Insert"
    /\ last'.op = "insert"
    /\ last'.result = "Ok"
    /\ buffer'.rope # buffer.rope

\* In Normal mode the tree is the tree of the text
TreeCurrentInNormalMode ==
    (mode = "Normal" /\ last.result # "Panic") => buffer.tree = buffer.rope

\* C35: while the editor is in Insert mode, inserting text does not
\* rebuild the syntax tree (the tree stays the one from before the insert);
\* entering Normal mode rebuilds it from the text, so that in Normal mode
\* the tree is always the tree of the current text.
C35_TreeFrozenWhileInserting ==
    /\ [][InsertsInInsertMode => buffer'.tree = buffer.tree]_vars
    /\ []TreeCurrentInNormalMode

\* C35, as the code has it: every insertion made in Insert mode leaves the
\* tree of the new text
C35_TreeRebuiltWhileInserting ==
    [][InsertsInInsertMode => buffer'.tree = buffer'.rope]_vars

\* C35, in Normal mode: the tree is the tree of the current text
C35_TreeCurrentInNormalMode == []TreeCurrentInNormalMode

\* An insertion in Insert mode has left the tree of the new text
C35_Witness ==
    /\ mode = "Insert"
    /\ last.op = "insert"
    /\ last.result = "Ok"
    /\ buffer.rope = <<"a">>
    /\ buffer.tree = <<"a">>

\* The editor is back in Normal mode after an insertion
C35_NormalModeWitness ==
    /\ mode = "Normal"
    /\ last.op = "enter_normal_mode"
    /\ buffer.rope = <<"a", "a">>
    /\ buffer.tree = buffer.rope

-----------------------------------------------------------------------------
(* Cancelling a jump (claim C36).                                          *)

\* A key that handle_jump_mode answers without a jump: esc, a key that is
\* not a char, or a char that is the label of no candidate
CancelKeyStep ==
    /\ jumps # None
    /\ last'.op = "jump_key"
    /\ last'.note \in {"esc", "not a char", "no match"}

\* The universal key ctrl+x typed while jumps are shown: "x" is the label of
\* no candidate, the texts holding no "x"
UniversalKeyStep ==
    /\ jumps # None
    /\ last'.op = "cut"
    /\ \A i \in 1..Len(jumps[1]) : jumps[1][i].character # "x"

\* The labels are cleared and selection set, mode and text stay
JumpCancelled ==
    /\ jumps' = None
    /\ selection_set' = selection_set
    /\ mode' = mode
    /\ buffer'.rope = buffer.rope

\* C36 as stated: while jump labels are shown, an Esc key, a non-character
\* key, or a character matching no label clears the labels and leaves the
\* selection set, the editor mode and the buffer text unchanged; the key is
\* not additionally interpreted as a command of the current mode.
C36_CancelKeyClearsLabels ==
    [][(CancelKeyStep \/ UniversalKeyStep) => JumpCancelled]_vars

\* C36 amended: the same for the keys that handle_universal_key ignores,
\* which are the keys that reach handle_jump_mode
C36_IgnoredKeyClearsLabels ==
    [][CancelKeyStep => JumpCancelled /\ buffer' = buffer /\ clipboard' = clipboard]_vars

\* In Insert mode, with labels shown, the char "," that is no label was
\* typed: the labels are gone and the text holds no new ","
C36_Witness ==
    /\ last.op = "jump_key"
    /\ last.note = "no match"
    /\ last.value.key = ","
    /\ Len(last.value.jumps) >= 2
    /\ mode = "Insert"
    /\ jumps = None
    /\ buffer.undo_patch = <<>>

\* esc typed while labels were shown
C36_EscWitness ==
    /\ last.op = "jump_key"
    /\ last.note = "esc"
    /\ Len(last.value.jumps) >= 2
    /\ jumps = None

\* ctrl+x typed while labels were shown: the selected text was cut, the
\* editor is in Insert mode and the labels are still shown
C36_UniversalKeyWitness ==
    /\ last.op = "cut"
    /\ last.result = "Ok"
    /\ jumps # None
    /\ Len(jumps[1]) >= 2
    /\ mode = "Insert"
    /\ buffer.undo_patch # <<>>
    /\ Len(buffer.rope) < 4

-----------------------------------------------------------------------------
(* Esc leads to Normal mode (claim C37).                                   *)

\* The modes other than Normal
OtherModes == {"Insert", "MultiCursor", "FindOneChar", "Exchange", "UndoTree", "Replace"}

\* The Esc key answered by the handler of a mode other than Normal
EscInOtherMode ==
    /\ last'.op = "key_event"
    /\ last'.value.key = "esc"
    /\ jumps = None
    /\ mode \in OtherModes

\* C37: from every editor mode other than Normal (Insert, MultiCursor,
\* FindOneChar, Exchange, UndoTree, Replace), when no jump labels are
\* shown, an Esc key event puts the editor in Normal mode without changing
\* the buffer text or the history; so Normal mode is reachable from every
\* mode by one Esc.
C37_EscEntersNormalMode ==
    [][EscInOtherMode => (mode' = "Normal" /\ buffer' = buffer /\ jumps' = None)]_vars

\* The Esc key is answered in every mode other than Normal that the editor
\* is in without labels: the step to Normal mode exists
C37_EscAnsweredInEveryMode ==
    (Alive /\ jumps = None /\ mode \in OtherModes)
        => HandleEscInMode(buffer, selection_set, mode).mode = "Normal"

\* Esc typed in Insert mode after an insertion: the editor is in Normal
\* mode and the text and the undo stack are those of the insertion
C37_Witness ==
    /\ last.op = "key_event"
    /\ last.value.mode = "Insert"
    /\ last.value.jumps = None
    /\ mode = "Normal"
    /\ Len(buffer.undo_patch) = 1
    /\ Len(buffer.rope) = 3

\* Esc typed in each of the other modes
C37_OtherModesWitness ==
    /\ last.op = "key_event"
    /\ last.value.mode \in OtherModes \ {"Insert"}
    /\ last.value.jumps = None
    /\ mode = "Normal"

\* Esc typed while labels are shown in Exchange mode clears the labels and
\* leaves the mode: the precondition of the claim is needed
C37_JumpsWitness ==
    /\ last.op = "key_event"
    /\ last.value.mode = "Exchange"
    /\ last.value.jumps # None
    /\ mode = "Exchange"
    /\ jumps = None

-----------------------------------------------------------------------------
(* Split view (claim C38).                                                 *)

\* Every selection of a set lies within [0, len_chars] of the rope
WithinText(rope, set) ==
    \A i \in 1..Len(Selections(set)) :
        /\ 0 <= Selections(set)[i].start
        /\ Selections(set)[i].start <= Selections(set)[i].end
        /\ Selections(set)[i].end <= Len(rope)

\* C38 as stated: with two editors created from the same buffer cell (split
\* view), after any edit, undo or redo performed through one editor, every
\* selection of the other editor still lies within [0, len_chars] of the
\* shared buffer.
C38_OtherEditorSelectionsWithinText ==
    last.op \in {"apply_edit_transaction", "undo", "redo"}
        => WithinText(buffer.rope, screen.other)

\* The other editor selected the last char of the text, and an edit through
\* the first editor made the text shorter: the selection ends past the text
C38_StaleSelectionWitness ==
    /\ last.op = "apply_edit_transaction"
    /\ last.result = "Ok"
    /\ WithinText(buffer.rope, selection_set)
    /\ screen.other.primary.end > Len(buffer.rope)

\* The same after a redo through the first editor
C38_StaleAfterRedoWitness ==
    /\ last.op = "redo"
    /\ last.result = "Ok"
    /\ screen.other.primary.end > Len(buffer.rope)

-----------------------------------------------------------------------------
(* Diagnostics of files not shown (claim C39).                             *)

\* What was published last for a path, nothing if nothing was
LastPublishedFor(s, path) ==
    IF path \in DOMAIN s.published THEN s.published[path] ELSE <<>>

\* The screen keeps for every path what was published last for it
DiagnosticsRetained == screen.diagnostics = screen.published

\* A step that opens a path in a new editor: the new editor is the last
\* component and its buffer holds what was published last for the path, in
\* the order of Buffer::set_diagnostics
NewEditorTakesDiagnostics ==
    (last'.op \in {"open_file", "go_to_location"} /\ last'.note = "new")
        => LET new == screen'.components[Len(screen'.components)].buffer
           IN  /\ Len(screen'.components) = Len(screen.components) + 1
               /\ new.path = Some(last'.value)
               /\ new.diagnostics = SortByStart(LastPublishedFor(screen, last'.value))

\* A step that publishes diagnostics leaves the editors of the other paths
PublishLeavesOtherPaths ==
    last'.op = "publish_diagnostics"
        => /\ Len(screen'.components) = Len(screen.components)
           /\ \A i \in 1..Len(screen.components) :
                screen.components[i].buffer.path # Some(last'.value)
                    => screen'.components[i] = screen.components[i]

C39_NotShownWitness ==
    /\ last.op = "publish_diagnostics"
    /\ last.note = "not shown"
    /\ screen.components # <<>>
    /\ screen.diagnostics[last.value] # <<>>

-----------------------------------------------------------------------------
(* One buffer and one open notification per path (claim C40).              *)

\* How often a path is in a list of paths
Count(paths, path) == Cardinality({i \in 1..Len(paths) : paths[i] = path})

\* C40 as stated: over any sequence of open_file, window-close and
\* go-to-location operations, each path has at most one Buffer in the
\* screen's buffer list and the language server receives at most one open
\* notification per path: opening a path that was opened before returns the
\* existing component instead of creating a buffer and notifying again.
C40_OneBufferAndOneOpenPerPath ==
    \A path \in Paths :
        /\ Count(screen.buffers, path) <= 1
        /\ Count(screen.lsp_opened, path) <= 1

\* What Screen::open_file itself ensures: a path that a component of the
\* layout shows is opened without a new buffer and without a notification,
\* and no two components show the same path
C40_ShownPathOpenedOnce ==
    /\ [][(last'.op \in {"open_file", "go_to_location"}
            /\ FindComponent(screen.components, last'.value) # 0)
                => /\ screen'.buffers = screen.buffers
                   /\ screen'.lsp_opened = screen.lsp_opened
                   /\ Len(screen'.components) = Len(screen.components)]_vars
    /\ [](\A i, j \in 1..Len(screen.components) :
            screen.components[i].buffer.path = screen.components[j].buffer.path => i = j)

\* A path was opened, its window closed, and the path opened again, with a
\* layout that finds a file only among the components it still has: the
\* list of buffers holds the path twice
C40_ReopenedWitness ==
    /\ last.op = "open_file"
    /\ last.note = "new"
    /\ Count(screen.buffers, last.value) = 2
    /\ Count(screen.lsp_opened, last.value) = 2
    /\ Len(screen.components) = 2

\* A path that is shown was opened again by go_to_location
C40_FoundWitness ==
    /\ last.op = "go_to_location"
    /\ last.note = "found"
    /\ Len(screen.buffers) = 2
    /\ Len(screen.components) = 2
    /\ screen.components[screen.focused].selection.end = 1

-----------------------------------------------------------------------------
(* The dispatches of the editor (claims C7 to C9).                         *)

\* The chars the cursors of a selection set are at
CursorsOf(set) == {Selections(set)[i].start : i \in 1..Len(Selections(set))}

\* The text with s inserted at each of the positions
RECURSIVE InsertAtEach(_, _, _)
InsertAtEach(text, positions, s) ==
    IF positions = {} THEN text
    ELSE LET p == CHOOSE q \in positions : \A r \in positions : r <= q
         IN  InsertAtEach(RopeInsert(text, p, s), positions \ {p}, s)

\* C7 as claimed: Insert(s) with cursors at distinct positions p1 < ... < pn
\* of the text leaves the text with s inserted at every pi and cursor i
\* collapsed at pi + i * len_chars(s), whatever the chars of s.
C7_InsertLeavesCursorsAfterCopies ==
    [][ LET cursors == CursorsOf(selection_set)
            s == last'.value
        IN  ( /\ last'.op = "insert"
              /\ Cardinality(cursors) = Len(Selections(selection_set))
              /\ \A p \in cursors : p <= Len(buffer.rope) )
            => /\ last'.result = "Ok"
               /\ buffer'.rope = InsertAtEach(buffer.rope, cursors, s)
               /\ Collapsed(selection_set')
               /\ Len(Selections(selection_set')) = Cardinality(cursors)
               /\ CursorsOf(selection_set')
                    = {p + Cardinality({q \in cursors : q <= p}) * Len(s) : p \in cursors}
      ]_vars

\* The char ranges of the edits of a list, all of them convertible
RangesOf(b, edits) == [i \in 1..Len(edits) |-> PositionalRange(b, edits[i])[1]]

\* The text with every edit of the list applied, the edits being ranges of
\* the text before any of them: the last one in the text first
RECURSIVE ApplyFromEnd(_, _, _)
ApplyFromEnd(text, ranges, edits) ==
    IF ranges = <<>> THEN text
    ELSE LET m == CHOOSE i \in 1..Len(ranges) : \A j \in 1..Len(ranges) :
                    \/ ranges[j].start < ranges[i].start
                    \/ ranges[j].start = ranges[i].start /\ j <= i
             Without(seq) == [k \in 1..(Len(seq) - 1) |->
                                 IF k < m THEN seq[k] ELSE seq[k + 1]]
         IN  ApplyFromEnd(ApplyEdit(text, Edit(ranges[m].start, ranges[m].end,
                                               edits[m].new_text)),
                          Without(ranges), Without(edits))

\* C8 as claimed: apply_positional_edits applies every edit of the list and
\* records one undo entry that reverts them all, or, when the range of some
\* edit has no char indices, applies none of them.
C8_PositionalEditsAllOrNothing ==
    [][ last'.op = "apply_positional_edits" =>
        LET edits == last'.value
        IN  IF last'.note = "not_convertible" THEN buffer'.rope = buffer.rope
            ELSE (\A i \in 1..Len(edits) :
                    /\ RangesOf(buffer, edits)[i].start <= RangesOf(buffer, edits)[i].end
                    /\ RangesOf(buffer, edits)[i].end <= Len(buffer.rope))
                 => /\ last'.result = "Ok"
                    /\ buffer'.rope
                        = ApplyFromEnd(buffer.rope, RangesOf(buffer, edits), edits)
                    /\ Len(buffer'.undo_patch) <= Len(buffer.undo_patch) + 1
                    /\ buffer'.rope # buffer.rope
                        => BufUndo(buffer', selection_set').buffer.rope = buffer.rope
      ]_vars

\* C9 as claimed: while the editor runs, the primary selection and every
\* secondary selection lie within [0, len_chars] of the text.
C9_SelectionsWithinText ==
    Alive => \A i \in 1..Len(Selections(selection_set)) :
                /\ 0 <= Selections(selection_set)[i].start
                /\ Selections(selection_set)[i].start <= Selections(selection_set)[i].end
                /\ Selections(selection_set)[i].end <= Len(buffer.rope)

====
